---------------------------- MODULE Spec2Model ----------------------------
(***************************************************************************)
(* A model of the Pitt course catalog client (src/pitt_cs_courses.py):     *)
(* the two-tier cache of PittCoursesClient, the tool handlers that drive   *)
(* it, and the prerequisite-expression parser.                             *)
(*                                                                         *)
(* Text is a sequence of one-character strings, so that normalisation,     *)
(* substring search and the regular expressions of the source are computed *)
(* character by character.                                                 *)
(***************************************************************************)
EXTENDS Integers, Sequences, FiniteSets, TLC

VARIABLES
    courses_cache,       \* PittCoursesClient.courses_cache: code -> Course (object id)
    courses_list_cache,  \* PittCoursesClient.courses_list_cache: list of Course (object ids)
    heap,                \* the Course objects, by object id (Python objects are shared by reference)
    calls,               \* the calls in flight, one per call slot
    returned,            \* the call that the last step finished, IdleCall when it finished none
    list_fetches,        \* number of listing pages parsed so far
    prereq_string,       \* parse_prerequisites: its argument
    parsed_prereqs,      \* parse_prerequisites: <<>> before the call, <<result>> after it
    sections_text,       \* _parse_sections_table: its argument `text`
    sections,            \* _parse_sections_table: <<>> before the call, <<result>> after it
    course_rows,         \* the courses table: Course.id -> row
    course_sources,      \* the course_sources table: <<course_id, field_name>> -> source
    data_conflicts,      \* the data_conflicts table, in the order of the rows' ids
    last_run             \* the scraper run that committed last, "" when none has

vars == <<courses_cache, courses_list_cache, heap, calls, returned, list_fetches,
          prereq_string, parsed_prereqs, sections_text, sections,
          course_rows, course_sources, data_conflicts, last_run>>

clientVars == <<courses_cache, courses_list_cache, heap, calls, returned, list_fetches>>

parseVars == <<prereq_string, parsed_prereqs, sections_text, sections>>

dbVars == <<course_rows, course_sources, data_conflicts, last_run>>

\* the database before any course is stored
EmptyDatabase ==
    /\ course_rows = <<>>
    /\ course_sources = <<>>
    /\ data_conflicts = <<>>
    /\ last_run = ""

-----------------------------------------------------------------------------
(* Characters and the str methods the source uses                          *)

LowerChars == <<"a","b","c","d","e","f","g","h","i","j","k","l","m",
                "n","o","p","q","r","s","t","u","v","w","x","y","z">>

UpperChars == <<"A","B","C","D","E","F","G","H","I","J","K","L","M",
                "N","O","P","Q","R","S","T","U","V","W","X","Y","Z">>

Range(f) == {f[i] : i \in DOMAIN f}

UpperSet == Range(UpperChars)

LowerSet == Range(LowerChars)

DigitSet == {"0","1","2","3","4","5","6","7","8","9"}

\* \s of the re module, as far as the inputs of the model go
SpaceSet == {" ", "\t", "\n"}

\* \w of the re module
WordSet == UpperSet \cup LowerSet \cup DigitSet \cup {"_"}

LetterIndex(c, letters) == CHOOSE i \in DOMAIN letters : letters[i] = c

UpperChar(c) == IF c \in LowerSet THEN UpperChars[LetterIndex(c, LowerChars)] ELSE c

LowerChar(c) == IF c \in UpperSet THEN LowerChars[LetterIndex(c, UpperChars)] ELSE c

\* str.upper()
StrUpper(s) == [i \in 1..Len(s) |-> UpperChar(s[i])]

\* str.lower()
StrLower(s) == [i \in 1..Len(s) |-> LowerChar(s[i])]

\* str.replace(' ', '-')
ReplaceSpaceByHyphen(s) == [i \in 1..Len(s) |-> IF s[i] = " " THEN "-" ELSE s[i]]

\* first index >= i of s, up to Len(s)+1, whose character is not in class:
\* the end of the greedy run a `class+` takes from i
RunEnd(s, i, class) ==
    CHOOSE j \in i..(Len(s) + 1) :
        /\ \A k \in i..(j - 1) : s[k] \in class
        /\ j = Len(s) + 1 \/ s[j] \notin class

\* str.strip()
StrStrip(s) ==
    LET first == RunEnd(s, 1, SpaceSet)
        last  == IF first > Len(s) THEN 0
                 ELSE CHOOSE j \in first..Len(s) :
                        /\ s[j] \notin SpaceSet
                        /\ \A k \in (j + 1)..Len(s) : s[k] \in SpaceSet
    IN  IF first > Len(s) THEN <<>> ELSE SubSeq(s, first, last)

\* the index of the first occurrence of character c in s, 0 when there is none
IndexOfChar(s, c) ==
    IF \E i \in 1..Len(s) : s[i] = c
    THEN CHOOSE i \in 1..Len(s) : s[i] = c /\ \A k \in 1..(i - 1) : s[k] # c
    ELSE 0

\* whether sub occurs in s at offset i (the characters s[i..i+Len(sub)-1])
OccursAt(s, sub, i) ==
    /\ i + Len(sub) - 1 <= Len(s)
    /\ \A k \in 1..Len(sub) : s[i + k - 1] = sub[k]

RECURSIVE ScanFor(_, _, _)
\* the scan behind `sub in s`: try every offset from i on, left to right
ScanFor(s, sub, i) ==
    IF i + Len(sub) - 1 > Len(s) THEN FALSE
    ELSE IF OccursAt(s, sub, i) THEN TRUE
    ELSE ScanFor(s, sub, i + 1)

\* the `in` operator on str
StrIn(sub, s) == ScanFor(s, sub, 1)

-----------------------------------------------------------------------------
(* parse_prerequisites                                                     *)

FourDigitsAt(s, i) ==
    /\ i + 3 <= Len(s)
    /\ \A k \in i..(i + 3) : s[k] \in DigitSet

\* r'(\w+)\s+(\d{4})' tried at offset i: <<end of \1, start of \2>> of the
\* match, <<0, 0>> when there is none. The classes \w and \s are disjoint,
\* so only the greedy runs can match.
SpacedCodeAt(s, i) ==
    LET w  == RunEnd(s, i, WordSet)
        sp == RunEnd(s, w, SpaceSet)
    IN  IF w > i /\ sp > w /\ FourDigitsAt(s, sp) THEN <<w, sp>> ELSE <<0, 0>>

\* a parser that leaves the spaced codes as they are
KeepSpacedCodes(s, i) == SubSeq(s, i, Len(s))

RECURSIVE NormalizeSpacedCodes(_, _)
\* re.sub(r'(\w+)\s+(\d{4})', r'\1-\2', s) from offset i on
NormalizeSpacedCodes(s, i) ==
    IF i > Len(s) THEN <<>>
    ELSE LET m == SpacedCodeAt(s, i)
         IN  IF m[1] # 0
             THEN SubSeq(s, i, m[1] - 1) \o <<"-">> \o SubSeq(s, m[2], m[2] + 3)
                    \o NormalizeSpacedCodes(s, m[2] + 4)
             ELSE <<s[i]>> \o NormalizeSpacedCodes(s, i + 1)

\* r'\s+word\s+' with re.IGNORECASE tried at offset i: the offset after the
\* match, 0 when there is none (word is given in lower case)
ConjunctionAt(s, i, word) ==
    LET a == RunEnd(s, i, SpaceSet)
        b == a + Len(word)
        e == IF b <= Len(s) + 1 THEN RunEnd(s, b, SpaceSet) ELSE 0
    IN  IF /\ a > i
           /\ b <= Len(s)
           /\ StrLower(SubSeq(s, a, b - 1)) = word
           /\ e > b
        THEN e ELSE 0

RECURSIVE SplitOn(_, _, _, _)
\* re.split(r'\s+word\s+', s, flags=re.IGNORECASE): the pieces of s from
\* offset start on, the scan being at offset i
SplitOn(s, word, start, i) ==
    IF i > Len(s) THEN <<SubSeq(s, start, Len(s))>>
    ELSE LET e == ConjunctionAt(s, i, word)
         IN  IF e # 0
             THEN <<SubSeq(s, start, i - 1)>> \o SplitOn(s, word, e, e)
             ELSE SplitOn(s, word, start, i + 1)

\* r'([A-Z]+[-\s]?\d{4})' tried at offset i: the offset after the match, 0
\* when there is none
CourseCodeAt(s, i) ==
    LET u == RunEnd(s, i, UpperSet)
    IN  IF u = i THEN 0
        ELSE IF u <= Len(s) /\ s[u] \in ({"-"} \cup SpaceSet)
        THEN (IF FourDigitsAt(s, u + 1) THEN u + 5 ELSE 0)
        ELSE (IF FourDigitsAt(s, u) THEN u + 4 ELSE 0)

\* re.search(r'([A-Z]+[-\s]?\d{4})', s): <<>> for no match, <<group(1)>> otherwise
SearchCourseCode(s) ==
    IF \E i \in 1..Len(s) : CourseCodeAt(s, i) # 0
    THEN LET i == CHOOSE j \in 1..Len(s) :
                      /\ CourseCodeAt(s, j) # 0
                      /\ \A k \in 1..(j - 1) : CourseCodeAt(s, k) = 0
         IN  <<SubSeq(s, i, CourseCodeAt(s, i) - 1)>>
    ELSE <<>>

RECURSIVE CleanCourses(_, _)
\* the inner loop: the codes of the AND-members and_courses[i..]
CleanCourses(and_courses, i) ==
    IF i > Len(and_courses) THEN <<>>
    ELSE SearchCourseCode(and_courses[i]) \o CleanCourses(and_courses, i + 1)

RECURSIVE PrerequisiteGroups(_, _)
\* the outer loop: the non-empty groups of or_groups[i..]
PrerequisiteGroups(or_groups, i) ==
    IF i > Len(or_groups) THEN <<>>
    ELSE LET clean_courses == CleanCourses(SplitOn(or_groups[i], <<"a","n","d">>, 1, 1), 1)
         IN  (IF clean_courses # <<>> THEN <<clean_courses>> ELSE <<>>)
                \o PrerequisiteGroups(or_groups, i + 1)

RECURSIVE AndFirstGroups(_, _)
\* a parser that splits on 'and' before 'or' (the precedence the tie-break
\* rule excludes)
AndFirstGroups(and_groups, i) ==
    IF i > Len(and_groups) THEN <<>>
    ELSE LET clean_courses == CleanCourses(SplitOn(and_groups[i], <<"o","r">>, 1, 1), 1)
         IN  (IF clean_courses # <<>> THEN <<clean_courses>> ELSE <<>>)
                \o AndFirstGroups(and_groups, i + 1)

parse_prerequisites_and_first(s) ==
    IF s = <<>> THEN <<>>
    ELSE AndFirstGroups(SplitOn(NormalizeSpacedCodes(s, 1), <<"a","n","d">>, 1, 1), 1)

parse_prerequisites(s) ==
    IF s = <<>> THEN <<>>
    ELSE PrerequisiteGroups(SplitOn(NormalizeSpacedCodes(s, 1), <<"o","r">>, 1, 1), 1)

-----------------------------------------------------------------------------
(* Bounds of the model                                                     *)

\* call slots: the tool calls that can be in flight at the same time
MaxCalls == 2

\* listing fetches issued over a run
MaxListFetches == 2

CallIds == 1..MaxCalls

-----------------------------------------------------------------------------
(* Texts of the model's pages and arguments                                *)

BASE_URL == <<"h","t","t","p","s",":","/","/","c","o","u","r","s","e","s",".","s","c","i",".","p","i","t","t",".","e","d","u">>

CS0445 == <<"C","S","-","0","4","4","5">>

CS1501 == <<"C","S","-","1","5","0","1">>

AlgorithmImplementation == <<"A","l","g","o","r","i","t","h","m"," ","I","m","p","l","e","m","e","n","t","a","t","i","o","n">>

DataStructures == <<"D","a","t","a"," ","S","t","r","u","c","t","u","r","e","s">>

Algorithms == <<"A","l","g","o","r","i","t","h","m","s">>

HrefA == <<"/","c","o","u","r","s","e","s","/","v","i","e","w","/","c","s","-","0","4","4","5">>

HrefB == <<"/","c","o","u","r","s","e","s","/","v","i","e","w","/","c","s","-","1","5","0","1">>

HrefAbout == <<"/","a","b","o","u","t">>

ViewPrefix == <<"/","c","o","u","r","s","e","s","/","v","i","e","w","/">>

\* an <a href> element of the listing page: its href and its get_text()
LinkA == [href |-> HrefA, text |-> <<" ">> \o CS0445 \o <<" ">> \o AlgorithmImplementation \o <<"\n">>]

LinkB == [href |-> HrefB, text |-> CS1501 \o <<" ">> \o DataStructures]

\* a second link to the course of LinkA, under another title
LinkA2 == [href |-> HrefA, text |-> CS0445 \o <<" ">> \o Algorithms]

LinkAbout == [href |-> HrefAbout, text |-> <<"A","b","o","u","t"," ","u","s">>]

\* a course link whose text holds no space
LinkBare == [href |-> HrefB, text |-> CS1501]

\* the listing pages the site may serve
ListingPages ==
    { <<LinkAbout, LinkBare>>,
      <<LinkAbout, LinkA>>,
      <<LinkA, LinkB>>,
      <<LinkB>>,
      <<LinkA, LinkA2>> }

DescAlgorithms == <<"C","o","v","e","r","s"," ","s","o","r","t","i","n","g"," ","a","l","g","o","r","i","t","h","m","s">>

DescSorting == <<"S","o","r","t","i","n","g"," ","a","n","d"," ","s","e","a","r","c","h","i","n","g">>

PreqText == <<"C","S","-","0","4","4","1"," ","a","n","d"," ","C","S","-","0","4","4","5"," ","o","r"," ","C","O","E","-","0","4","4","5">>

UGRD == <<"U","G","R","D">>

Lecture == <<"L","e","c","t","u","r","e">>

Fall2025 == <<"F","a","l","l"," ","2","0","2","5">>

\* the digit run after a credits marker that int() refuses (a run longer
\* than the interpreter's limit for integer strings); every other run is
\* modelled by its value
TooLong == -1

Section1 == [class_number |-> "18582", days |-> "TuTh", times |-> "1:00pm-2:15pm",
             room |-> "LAWRN 104", instructor |-> "Marina Barsky",
             section_type |-> "LEC", tas |-> ""]

\* A detail page, as what each recognizer of _parse_course_details finds on
\* it: <<>> where the element or the pattern is absent, <<text>> otherwise;
\* credits is <<>> or the two digit runs <<group(1), group(2)>>; sections is
\* what _parse_sections_table returns for the page.
PageFull ==
    [p |-> <<<<" ">> \o DescAlgorithms>>, preq |-> <<PreqText>>, creq |-> <<>>,
     credits |-> <<3, 4>>, career |-> <<UGRD>>, component |-> <<Lecture>>,
     semester |-> <<Fall2025>>, sections |-> <<Section1>>]

\* no <p> and no div.description on the page
PageNoDescription ==
    [p |-> <<>>, preq |-> <<PreqText>>, creq |-> <<>>,
     credits |-> <<3, 3>>, career |-> <<UGRD>>, component |-> <<>>,
     semester |-> <<>>, sections |-> <<>>]

\* the run after 'Maximum Credits:' is one int() refuses
PageBadCredits ==
    [p |-> <<DescSorting>>, preq |-> <<>>, creq |-> <<>>,
     credits |-> <<3, TooLong>>, career |-> <<UGRD>>, component |-> <<Lecture>>,
     semester |-> <<Fall2025>>, sections |-> <<Section1>>]

DetailPages == {PageFull, PageNoDescription, PageBadCredits}

\* the course_code arguments of the calls
CS_0445_spaced == <<"C","S"," ","0","4","4","5">>

cs_1501_lower == <<"c","s"," ","1","5","0","1">>

CS9999 == <<"C","S","-","9","9","9","9">>

CodeArgs == {CS0445, CS_0445_spaced, cs_1501_lower, CS9999}

\* the query and department arguments of the search calls
QueryCS == <<"0","4","4","5">>

DeptCS == <<"c","s">>

Queries == {QueryCS}

Departments == {<<>>, <<DeptCS>>}

-----------------------------------------------------------------------------
(* Course objects and the extraction of a listing and of a detail page     *)

\* Course.__init__; last_pass is history kept by the model, not a field of
\* the class: the outcome of the last extraction pass that wrote to the
\* object ("none", "partial" when the pass was cut short, "complete")
NewCourse(code, title, url) ==
    [code |-> code, title |-> title, url |-> url,
     description |-> <<>>, prerequisites |-> <<>>, corequisites |-> <<>>,
     credits_min |-> <<>>, credits_max |-> <<>>,
     career |-> <<>>, component |-> <<>>, grade_component |-> <<>>,
     sections |-> <<>>, current_semester |-> <<>>,
     last_pass |-> "none"]

\* str.startswith
StartsWith(s, prefix) == Len(prefix) <= Len(s) /\ SubSeq(s, 1, Len(prefix)) = prefix

RECURSIVE ParseCourseList(_, _)
\* the loop of _parse_course_list over the links page[i..]: the courses as
\* <<code, title, url>> records, in document order
ParseCourseList(page, i) ==
    IF i > Len(page) THEN <<>>
    ELSE LET link_text == StrStrip(page[i].text)
             sp        == IndexOfChar(link_text, " ")
         IN  (IF StartsWith(page[i].href, ViewPrefix) /\ sp # 0
              THEN <<NewCourse(SubSeq(link_text, 1, sp - 1),
                               SubSeq(link_text, sp + 1, Len(link_text)),
                               BASE_URL \o page[i].href)>>
              ELSE <<>>)
                \o ParseCourseList(page, i + 1)

\* int(digits) raises ValueError
IntRaises(digits) == digits = TooLong

\* the recognizers before the credits: description, PREQ, CREQ
EarlyFields(course, page) ==
    LET c1 == IF page.p # <<>>
              THEN [course EXCEPT !.description = StrStrip(page.p[1])] ELSE course
        c2 == IF page.preq # <<>>
              THEN [c1 EXCEPT !.prerequisites = StrStrip(page.preq[1])] ELSE c1
    IN  IF page.creq # <<>>
        THEN [c2 EXCEPT !.corequisites = StrStrip(page.creq[1])] ELSE c2

\* the recognizers after the credits: career, component, semester, sections
LateFields(course, page) ==
    LET c1 == IF page.career # <<>>
              THEN [course EXCEPT !.career = page.career[1]] ELSE course
        c2 == IF page.component # <<>>
              THEN [c1 EXCEPT !.component = StrStrip(page.component[1])] ELSE c1
        c3 == IF page.semester # <<>>
              THEN [c2 EXCEPT !.current_semester = page.semester[1]] ELSE c2
    IN  [c3 EXCEPT !.sections = page.sections, !.last_pass = "complete"]

\* an extraction that undoes its writes when a recognizer raises: the course
\* is left as it was before the pass
ParseCourseDetailsRollsBack(course, page) ==
    IF page.credits # <<>> /\ (IntRaises(page.credits[1]) \/ IntRaises(page.credits[2]))
    THEN [course EXCEPT !.last_pass = "partial"]
    ELSE IF page.credits = <<>> THEN LateFields(EarlyFields(course, page), page)
    ELSE LateFields([EarlyFields(course, page) EXCEPT !.credits_min = <<page.credits[1]>>,
                                                      !.credits_max = <<page.credits[2]>>], page)

\* _parse_course_details once the page is fetched: the course object after
\* the try block, which an exception leaves where it was raised
ParseCourseDetails(course, page) ==
    LET c == EarlyFields(course, page)
    IN  IF page.credits = <<>> THEN LateFields(c, page)
        ELSE IF IntRaises(page.credits[1]) THEN [c EXCEPT !.last_pass = "partial"]
        ELSE IF IntRaises(page.credits[2])
             THEN [c EXCEPT !.credits_min = <<page.credits[1]>>, !.last_pass = "partial"]
        ELSE LateFields([c EXCEPT !.credits_min = <<page.credits[1]>>,
                                  !.credits_max = <<page.credits[2]>>], page)

-----------------------------------------------------------------------------
(* PittCoursesClient and the tool handlers                                 *)

\* A call. pc is where it stands: "idle" (the slot holds no call),
\* "list_fetch" (suspended in _fetch_page(COURSES_URL)), "detail_fetch"
\* (suspended in _fetch_page(course.url)) or "done". course_code and course
\* are the locals of get_course_details; fetched names the pages the call has
\* requested and failed tells that one of these fetches raised; hit tells
\* that get_course_details returned from its cache check; ret is what the client method returned (a list of object ids, <<>>
\* for None); out is how the call ended for its caller.
IdleCall ==
    [pc |-> "idle", tool |-> "", arg |-> <<>>, department |-> <<>>, refresh |-> FALSE,
     course_code |-> <<>>, course |-> <<>>, fetched |-> {}, failed |-> FALSE,
     hit |-> FALSE,
     ret |-> <<>>, out |-> ""]

NewCall(tool, arg) == [IdleCall EXCEPT !.tool = tool, !.arg = arg]

Done(call, ret, out) == [call EXCEPT !.pc = "done", !.ret = ret, !.out = out]

\* courses_cache[key] = id
CacheSet(cache, key, id) ==
    [c \in (DOMAIN cache) \cup {key} |-> IF c = key THEN id ELSE cache[c]]

\* the codes of a list of course records
CodesOf(courses) == {courses[i].code : i \in 1..Len(courses)}

\* get_all_courses after _parse_course_list has returned `courses`, whose
\* objects take the ids base+1..: the new courses_cache. The loop assigns in
\* list order, so the last course of a code is the one that stays.
UpdateCoursesCache(cache, courses, base) ==
    [c \in (DOMAIN cache) \cup CodesOf(courses) |->
        IF c \in CodesOf(courses)
        THEN base + (CHOOSE i \in 1..Len(courses) :
                        /\ courses[i].code = c
                        /\ \A j \in (i + 1)..Len(courses) : courses[j].code # c)
        ELSE cache[c]]

\* the comparison of get_course_details' generator: c.code.replace(' ', '-') == course_code
CodeMatches(course, course_code) == ReplaceSpaceByHyphen(course.code) = course_code

\* next((c for c in courses if ...), None): <<>> or <<id of the first match>>
FindCourse(courses, hp, course_code) ==
    IF \E i \in 1..Len(courses) : CodeMatches(hp[courses[i]], course_code)
    THEN <<courses[CHOOSE i \in 1..Len(courses) :
                /\ CodeMatches(hp[courses[i]], course_code)
                /\ \A j \in 1..(i - 1) : ~CodeMatches(hp[courses[j]], course_code)]>>
    ELSE <<>>

\* the part of a code before its first c, the whole code when it holds none: code.split(c)[0]
SplitFirst(code, c) ==
    IF IndexOfChar(code, c) = 0 THEN code ELSE SubSeq(code, 1, IndexOfChar(code, c) - 1)

DeptCode(code) ==
    IF IndexOfChar(code, "-") # 0 THEN SplitFirst(code, "-") ELSE SplitFirst(code, " ")

\* a query test that leaves the title out
QueryMatchesCodeOrDescription(course, query_lower) ==
    \/ StrIn(query_lower, StrLower(course.code))
    \/ (course.description # <<>> /\ StrIn(query_lower, StrLower(course.description)))

\* the test of search_courses' loop on one course
QueryMatches(course, query_lower) ==
    \/ StrIn(query_lower, StrLower(course.code))
    \/ StrIn(query_lower, StrLower(course.title))
    \/ (course.description # <<>> /\ StrIn(query_lower, StrLower(course.description)))

\* `if department:` is false for None and for the empty string
DepartmentGiven(department) == department # <<>> /\ department[1] # <<>>

\* a department filter by prefix of the code, as list_courses_by_department has it
DepartmentIsPrefix(course, department) ==
    \/ ~DepartmentGiven(department)
    \/ /\ Len(department[1]) <= Len(course.code)
       /\ SubSeq(course.code, 1, Len(department[1])) = department[1]

DepartmentMatches(course, department) ==
    \/ ~DepartmentGiven(department)
    \/ StrUpper(DeptCode(course.code)) = StrUpper(department[1])

RECURSIVE SearchLoop(_, _, _, _, _)
\* the loop of search_courses over courses[i..]: the ids appended to results
SearchLoop(courses, hp, query_lower, department, i) ==
    IF i > Len(courses) THEN <<>>
    ELSE (IF /\ QueryMatches(hp[courses[i]], query_lower)
             /\ DepartmentMatches(hp[courses[i]], department)
          THEN <<courses[i]>> ELSE <<>>)
            \o SearchLoop(courses, hp, query_lower, department, i + 1)

\* search_courses once get_all_courses has returned `courses`, and the
\* handler's rendering of its result
SearchCourses(call, courses, hp) ==
    LET results == SearchLoop(courses, hp, StrLower(call.arg), call.department, 1)
    IN  Done(call, results, IF results = <<>> THEN "no_results" ELSE "text")

\* the handler of list_courses_by_department once get_all_courses has
\* returned `courses`: [c for c in courses if c.code.startswith(department)]
ListCoursesByDepartment(call, courses, hp) ==
    LET Starts(id) == StartsWith(hp[id].code, call.arg)
        dept_courses == SelectSeq(courses, Starts)
    IN  Done(call, dept_courses, IF dept_courses = <<>> THEN "no_results" ELSE "text")

\* the tools whose handler calls client.get_course_details
DetailTools ==
    {"get_course_details", "get_prerequisites", "find_prerequisite_chain", "get_course_sections"}

\* the department codes the tool schemas name ("enum")
RecognisedDepartments ==
    {<<"C","S">>, <<"I","N","F","S","C","I">>, <<"C","M","P","I","N","F">>,
     <<"L","I","S">>, <<"T","E","L","C","O","M">>, <<"I","S","S","P">>}

\* the tools of handle_call_tool
Tools == DetailTools \cup {"search_courses", "list_courses_by_department"}

\* what a handler of DetailTools answers once get_course_details has
\* returned the course
Rendered(tool, course) ==
    IF tool = "get_prerequisites" /\ course.prerequisites = <<>> THEN "no_prerequisites"
    ELSE "text"

\* get_course_details once get_all_courses has returned `courses`: the course
\* is looked up, and the call either ends (None: "not found") or requests
\* the detail page
LookUpCourse(call, courses, hp) ==
    LET course == FindCourse(courses, hp, call.course_code)
    IN  IF course = <<>> THEN Done(call, <<>>, "not_found")
        ELSE [call EXCEPT !.pc = "detail_fetch", !.course = course,
                          !.fetched = @ \cup {"detail"}]

\* what a call does with the value of `await self.get_all_courses()`
AfterGetAllCourses(call, courses, hp) ==
    CASE call.tool = "get_all_courses"    -> Done(call, courses, "returned")
      [] call.tool = "search_courses"     -> SearchCourses(call, courses, hp)
      [] call.tool \in DetailTools       -> LookUpCourse(call, courses, hp)
      [] call.tool = "list_courses_by_department" ->
            ListCoursesByDepartment(call, courses, hp)

\* a get_all_courses that requests the listing page whatever the list cache holds
FetchesListAlways(call) == TRUE

\* get_all_courses requests the listing page: `refresh or not self.courses_list_cache`
IssuesListFetch(call) == call.refresh \/ courses_list_cache = <<>>

\* get_all_courses up to its first suspension: the cached list is returned,
\* or the listing page is requested
GetAllCourses(call) ==
    IF ~IssuesListFetch(call)
    THEN AfterGetAllCourses(call, courses_list_cache, heap)
    ELSE [call EXCEPT !.pc = "list_fetch", !.fetched = @ \cup {"listing"}]

\* a normalisation that leaves the spaces in
NormalizeCodeUpperOnly(course_code) == StrUpper(course_code)

\* course_code.upper().replace(' ', '-')
NormalizeCode(course_code) == ReplaceSpaceByHyphen(StrUpper(course_code))

\* a cache check that tests the prerequisites instead of the description
CachedWithPrerequisites(course_code) ==
    /\ course_code \in DOMAIN courses_cache
    /\ heap[courses_cache[course_code]].prerequisites # <<>>

\* the cache check of get_course_details: the entry is there and has a description
CachedWithDetails(course_code) ==
    /\ course_code \in DOMAIN courses_cache
    /\ heap[courses_cache[course_code]].description # <<>>

\* get_course_details up to its first suspension
GetCourseDetails(call) ==
    LET c == [call EXCEPT !.course_code = NormalizeCode(call.arg)]
    IN  IF CachedWithDetails(c.course_code)
        THEN Done([c EXCEPT !.hit = TRUE], <<courses_cache[c.course_code]>>,
                  Rendered(c.tool, heap[courses_cache[c.course_code]]))
        ELSE GetAllCourses(c)

\* a new call takes the first slot that holds none
Free(k) == calls[k].pc = "idle" /\ \A j \in 1..(k - 1) : calls[j].pc # "idle"

\* the call of slot k has run to `next`, its next suspension or its end: a
\* finished call leaves its slot, and `returned` holds it for one step
Settle(k, next) ==
    /\ calls' = [calls EXCEPT ![k] = IF next.pc = "done" THEN IdleCall ELSE next]
    /\ returned' = IF next.pc = "done" THEN next ELSE IdleCall

\* a call that starts: the listing fetches a run may issue are bounded
Start(k, next) ==
    /\ next.pc = "list_fetch" => list_fetches < MaxListFetches
    /\ list_fetches' = IF next.pc = "list_fetch" THEN list_fetches + 1 ELSE list_fetches
    /\ Settle(k, next)
    /\ UNCHANGED <<courses_cache, courses_list_cache, heap, parseVars, dbVars>>

\* client.get_all_courses(refresh) is called
CallGetAllCourses(k) ==
    /\ Free(k)
    /\ \E refresh \in BOOLEAN :
         Start(k, GetAllCourses([NewCall("get_all_courses", <<>>) EXCEPT !.refresh = refresh]))

\* the get_course_details tool is called with a course_code of the given set
DetailsCall(k, codes) ==
    /\ Free(k)
    /\ \E course_code \in codes :
         LET call == NewCall("get_course_details", course_code)
         IN  Start(k, IF course_code = <<>> THEN Done(call, <<>>, "required")
                      ELSE GetCourseDetails(call))

CallGetCourseDetails(k) == DetailsCall(k, CodeArgs)

\* the search_courses tool is called with a query and a department of the given sets
SearchCall(k, queries, departments) ==
    /\ Free(k)
    /\ \E query \in queries, department \in departments :
         LET call == [NewCall("search_courses", query) EXCEPT !.department = department]
         IN  Start(k, IF query = <<>> THEN Done(call, <<>>, "required")
                      ELSE GetAllCourses(call))

CallSearchCourses(k) == SearchCall(k, Queries, Departments)

\* the get_prerequisites tool is called: the handler passes course_code on
\* as it is
PrerequisitesCall(k, codes) ==
    /\ Free(k)
    /\ \E course_code \in codes :
         Start(k, GetCourseDetails(NewCall("get_prerequisites", course_code)))

CallGetPrerequisites(k) == PrerequisitesCall(k, {<<>>, CS0445})

\* the find_prerequisite_chain tool is called: the handler passes
\* course_code on as it is
ChainCall(k, codes) ==
    /\ Free(k)
    /\ \E course_code \in codes :
         Start(k, GetCourseDetails(NewCall("find_prerequisite_chain", course_code)))

CallFindPrerequisiteChain(k) == ChainCall(k, {<<>>, cs_1501_lower})

\* the get_course_sections tool is called
SectionsCall(k, codes) ==
    /\ Free(k)
    /\ \E course_code \in codes :
         LET call == NewCall("get_course_sections", course_code)
         IN  Start(k, IF course_code = <<>> THEN Done(call, <<>>, "required")
                      ELSE GetCourseDetails(call))

CallGetCourseSections(k) == SectionsCall(k, {<<>>, CS0445})

\* the list_courses_by_department tool is called with a department of the given set
DepartmentCall(k, departments) ==
    /\ Free(k)
    /\ \E department \in departments :
         LET call == NewCall("list_courses_by_department", department)
         IN  Start(k, IF department = <<>> THEN Done(call, <<>>, "required")
                      ELSE GetAllCourses(call))

CallListCoursesByDepartment(k) == DepartmentCall(k, {<<>>, <<"C","S">>})

\* _fetch_page(COURSES_URL) returns one of the given pages: _parse_course_list
\* builds the courses, get_all_courses stores them, and the call goes on to
\* its next suspension or to its end
ListFetch(k, pages) ==
    /\ calls[k].pc = "list_fetch"
    /\ \E page \in pages :
         LET courses == ParseCourseList(page, 1)
             base    == Len(heap)
             ids     == [i \in 1..Len(courses) |-> base + i]
             hp      == heap \o courses
         IN  /\ heap' = hp
             /\ courses_list_cache' = ids
             /\ courses_cache' = UpdateCoursesCache(courses_cache, courses, base)
             /\ Settle(k, AfterGetAllCourses(calls[k], ids, hp))
    /\ UNCHANGED <<list_fetches, parseVars, dbVars>>

ListFetchReturns(k) == ListFetch(k, ListingPages)

\* _fetch_page(COURSES_URL) raises: nothing catches it in the client; a tool
\* handler turns it into McpError(INTERNAL_ERROR)
ListFetchFails(k) ==
    /\ calls[k].pc = "list_fetch"
    /\ Settle(k, Done([calls[k] EXCEPT !.failed = TRUE], <<>>,
                       IF calls[k].tool = "get_all_courses" THEN "raised"
                       ELSE "internal_error"))
    /\ UNCHANGED <<courses_cache, courses_list_cache, heap, list_fetches, parseVars, dbVars>>

\* _fetch_page(course.url) returns one of the given pages: the course is
\* written in place, cached under the normalised code and returned
DetailFetch(k, pages) ==
    /\ calls[k].pc = "detail_fetch"
    /\ \E page \in pages :
         LET id == calls[k].course[1]
         IN  /\ heap' = [heap EXCEPT ![id] = ParseCourseDetails(@, page)]
             /\ courses_cache' = CacheSet(courses_cache, calls[k].course_code, id)
             /\ Settle(k, Done(calls[k], <<id>>, Rendered(calls[k].tool, heap'[id])))
    /\ UNCHANGED <<courses_list_cache, list_fetches, parseVars, dbVars>>

DetailFetchReturns(k) == DetailFetch(k, DetailPages)

\* a failure of _fetch_page(course.url) that reaches the tool handler, which
\* would turn it into McpError(INTERNAL_ERROR)
DetailFetchRaises(k) ==
    /\ calls[k].pc = "detail_fetch"
    /\ Settle(k, Done([calls[k] EXCEPT !.failed = TRUE], <<>>, "internal_error"))
    /\ UNCHANGED <<courses_cache, courses_list_cache, heap, list_fetches, parseVars, dbVars>>

\* _fetch_page(course.url) raises: the except clause of _parse_course_details
\* swallows it, and the course is cached and returned as it is
DetailFetchFails(k) ==
    /\ calls[k].pc = "detail_fetch"
    /\ LET id == calls[k].course[1]
       IN  /\ courses_cache' = CacheSet(courses_cache, calls[k].course_code, id)
           /\ Settle(k, Done([calls[k] EXCEPT !.failed = TRUE], <<id>>,
                              Rendered(calls[k].tool, heap[id])))
    /\ UNCHANGED <<courses_list_cache, heap, list_fetches, parseVars, dbVars>>

InitClient ==
    /\ courses_cache = [c \in {} |-> 0]
    /\ courses_list_cache = <<>>
    /\ heap = <<>>
    /\ calls = [k \in CallIds |-> IdleCall]
    /\ returned = IdleCall
    /\ list_fetches = 0

Init ==
    /\ InitClient
    /\ prereq_string = <<>>
    /\ parsed_prereqs = <<>>
    /\ sections_text = <<>>
    /\ sections = <<>>
    /\ EmptyDatabase

\* no call is in flight
Quiet == \A k \in CallIds : calls[k].pc = "idle"

\* The single-flow discipline: each call runs to completion before the next
\* one is dispatched.
Next ==
    \E k \in CallIds :
        \/ Quiet /\ CallGetAllCourses(k)
        \/ Quiet /\ CallGetCourseDetails(k)
        \/ Quiet /\ CallSearchCourses(k)
        \/ Quiet /\ CallGetPrerequisites(k)
        \/ Quiet /\ CallFindPrerequisiteChain(k)
        \/ Quiet /\ CallGetCourseSections(k)
        \/ Quiet /\ CallListCoursesByDepartment(k)
        \/ ListFetchReturns(k)
        \/ ListFetchFails(k)
        \/ DetailFetchReturns(k)
        \/ DetailFetchFails(k)

Spec == Init /\ [][Next]_vars

-----------------------------------------------------------------------------
(* parse_prerequisites as a specification of its own                       *)

CS0441 == <<"C","S","-","0","4","4","1">>

COE0445 == <<"C","O","E","-","0","4","4","5">>

OR1234 == <<"O","R","-","1","2","3","4">>

AND0001 == <<"A","N","D","-","0","0","0","1">>

\* course codes of the shape DEPT-NNNN, two of them with a department that
\* reads as a conjunction
ParseCodes == {CS0441, COE0445, OR1234, AND0001}

\* "X and Y or Z"
AndOr(X, Y, Z) == X \o <<" ","a","n","d"," ">> \o Y \o <<" ","o","r"," ">> \o Z

\* "X or Y and Z"
OrAnd(X, Y, Z) == X \o <<" ","o","r"," ">> \o Y \o <<" ","a","n","d"," ">> \o Z

PrereqInputs ==
    {AndOr(X, Y, Z) : X \in ParseCodes, Y \in ParseCodes, Z \in ParseCodes}
        \cup {OrAnd(X, Y, Z) : X \in ParseCodes, Y \in ParseCodes, Z \in ParseCodes}

\* the pieces the free-form prerequisite strings are put together from
PrereqPieces ==
    {<<"C","S">>, <<"0","4","4","5">>, <<"7">>, <<" ">>, <<"-">>, <<"o","r">>, <<"A","n","d">>}

\* the longest free-form string, in pieces
MaxPieces == 4

RECURSIVE PiecedStrings(_)
\* the strings of at most n pieces
PiecedStrings(n) ==
    IF n = 0 THEN {<<>>}
    ELSE LET shorter == PiecedStrings(n - 1)
         IN  shorter \cup {t \o piece : t \in shorter, piece \in PrereqPieces}

CS_0445_tabbed == <<"c","o","e","\t","0","4","4","5"," ","O","R","\n","C","S"," "," ","0","4","4","5","6">>

PermissionOfInstructor == <<"p","e","r","m","i","s","s","i","o","n"," ","o","r"," ","C","S"," ","0","4","4">>

\* free-form texts after 'PREQ:'
FreePrereqInputs == (PiecedStrings(MaxPieces) \ {<<>>}) \cup {CS_0445_tabbed, PermissionOfInstructor}

InitParse ==
    /\ InitClient
    /\ prereq_string \in PrereqInputs \cup FreePrereqInputs
    /\ parsed_prereqs = <<>>
    /\ sections_text = <<>>
    /\ sections = <<>>
    /\ EmptyDatabase

\* client.parse_prerequisites(prereq_string) is called
ParsePrerequisites ==
    /\ parsed_prereqs = <<>>
    /\ parsed_prereqs' = <<parse_prerequisites(prereq_string)>>
    /\ UNCHANGED <<prereq_string, sections_text, sections, clientVars, dbVars>>

NextParse == ParsePrerequisites

SpecParse == InitParse /\ [][NextParse]_vars

-----------------------------------------------------------------------------
(* search_courses over catalogs of several shapes                          *)

INFSCI0010 == <<"I","N","F","S","C","I","-","0","0","1","0">>

CMPINF0401 == <<"C","M","P","I","N","F","0","4","0","1">>

LinkInfsci == [href |-> HrefB, text |-> INFSCI0010 \o <<" ","I","n","f","o","r","m","a","t","i","o","n"," ","S","c","i","e","n","c","e">>]

\* a course whose code holds no hyphen
LinkNoHyphen == [href |-> HrefB, text |-> CMPINF0401 \o <<" ","I","n","t","e","r","m","e","d","i","a","t","e"," ","P","r","o","g","r","a","m","m","i","n","g">>]

\* the courses of a listing page, those at the given places extracted from
\* the given detail pages (place |-> page)
Catalog(listing, details) ==
    LET courses == ParseCourseList(listing, 1)
    IN  [i \in 1..Len(courses) |->
            IF i \in DOMAIN details THEN ParseCourseDetails(courses[i], details[i])
            ELSE courses[i]]

\* one course, titled "Algorithm Implementation", no description fetched yet
CatalogOneShallow == Catalog(<<LinkA>>, <<>>)

SearchCatalogs ==
    { CatalogOneShallow,
      Catalog(<<LinkA, LinkB, LinkInfsci>>, <<PageFull>>),
      Catalog(<<LinkB, LinkNoHyphen, LinkA>>, <<PageBadCredits, PageNoDescription, PageFull>>) }

QueryAlgorithms == <<"a","l","g","o","r","i","t","h","m","s">>

QueryAlgorithm == <<"a","l","g","o","r","i","t","h","m">>

QuerySorting == <<"s","o","r","t","i","n","g">>

QueryZero == <<"0">>

SearchQueries ==
    {QueryAlgorithms, QueryAlgorithm, QuerySorting, QueryZero, QueryCS, <<"A","L","G","O">>, <<"I","n","f">>, <<"x","y","z">>}

SearchDepartments ==
    {<<>>, <<<<>>>>, <<DeptCS>>, <<<<"C","S">>>>, <<<<"C">>>>, <<<<"I","N","F","S","C","I">>>>, <<<<"C","M","P","I","N","F">>>>, <<CMPINF0401>>}

\* the client after get_all_courses and some get_course_details calls
InitSearch ==
    /\ \E catalog \in SearchCatalogs :
         /\ heap = catalog
         /\ courses_list_cache = [i \in 1..Len(catalog) |-> i]
         /\ courses_cache = UpdateCoursesCache([c \in {} |-> 0], catalog, 0)
    /\ calls = [k \in CallIds |-> IdleCall]
    /\ returned = IdleCall
    /\ list_fetches = 1
    /\ prereq_string = <<>>
    /\ parsed_prereqs = <<>>
    /\ sections_text = <<>>
    /\ sections = <<>>
    /\ EmptyDatabase

\* the department arguments of list_courses_by_department: those of the
\* search, the empty string among them
ListDepartments == {department[1] : department \in SearchDepartments \ {<<>>}}

NextSearch ==
    \E k \in CallIds :
        \/ Quiet /\ SearchCall(k, SearchQueries, SearchDepartments)
        \/ Quiet /\ DepartmentCall(k, ListDepartments)

SpecSearch == InitSearch /\ [][NextSearch]_vars

-----------------------------------------------------------------------------
(* detail extraction of one listed course over detail pages of many shapes *)

\* what follows a credits marker on a page: no marker, or its run of digits
CreditRuns == {<<>>, <<3>>, <<4>>, <<TooLong>>}

\* re.search(r'Minimum Credits:\s*(\d+).*?Maximum Credits:\s*(\d+)') on a
\* page with these runs after the two markers: the groups, or no match
CreditsMatch(minimum, maximum) ==
    IF minimum # <<>> /\ maximum # <<>> THEN <<minimum[1], maximum[1]>> ELSE <<>>

ExtractPages ==
    {[p |-> p, preq |-> preq, creq |-> <<>>, credits |-> CreditsMatch(minimum, maximum),
      career |-> <<UGRD>>, component |-> <<>>, semester |-> <<>>, sections |-> <<>>] :
        p \in {<<>>, <<DescSorting>>}, preq \in {<<>>, <<PreqText>>},
        minimum \in CreditRuns, maximum \in CreditRuns}

\* the client after get_all_courses on a listing of one course
InitExtract ==
    /\ heap = CatalogOneShallow
    /\ courses_list_cache = <<1>>
    /\ courses_cache = UpdateCoursesCache([c \in {} |-> 0], CatalogOneShallow, 0)
    /\ calls = [k \in CallIds |-> IdleCall]
    /\ returned = IdleCall
    /\ list_fetches = 1
    /\ prereq_string = <<>>
    /\ parsed_prereqs = <<>>
    /\ sections_text = <<>>
    /\ sections = <<>>
    /\ EmptyDatabase

NextExtract ==
    \E k \in CallIds :
        \/ Quiet /\ DetailsCall(k, {CS0445})
        \/ DetailFetch(k, ExtractPages)
        \/ DetailFetchFails(k)

SpecExtract == InitExtract /\ [][NextExtract]_vars

-----------------------------------------------------------------------------
(* _parse_sections_table                                                   *)

\* CourseSection(...), tas left at its default
CourseSection(class_number, days, times, room, instructor, section_type) ==
    [class_number |-> class_number, days |-> days, times |-> times, room |-> room,
     instructor |-> instructor, section_type |-> section_type, tas |-> <<>>]

SectionTypes == {<<"L","E","C">>, <<"R","E","C">>, <<"L","A","B">>}

LetterSet == UpperSet \cup LowerSet

\* [0-9:apmn-]
TimeSet == DigitSet \cup {":", "a", "p", "m", "n", "-"}

\* re.search(r'Current Sections.*?(?=School of Computing|$)', text,
\* re.DOTALL | re.IGNORECASE): <<>> for no match, <<group(0)>> otherwise. The
\* lazy .*? stops at the first offset where the lookahead holds; $ holds at
\* the end of the text and before a newline that ends it.
SectionsText(text) ==
    LET lower  == StrLower(text)
        marker == <<"c","u","r","r","e","n","t"," ","s","e","c","t","i","o","n","s">>
        stop   == <<"s","c","h","o","o","l"," ","o","f"," ","c","o","m","p","u","t","i","n","g">>
        starts == {i \in 1..Len(text) : OccursAt(lower, marker, i)}
    IN  IF starts = {} THEN <<>>
        ELSE LET start == CHOOSE i \in starts : \A j \in starts : i <= j
                 ends  == {e \in (start + Len(marker))..(Len(text) + 1) :
                              \/ e = Len(text) + 1
                              \/ e = Len(text) /\ text[e] = "\n"
                              \/ OccursAt(lower, stop, e)}
             IN  <<SubSeq(text, start, (CHOOSE e \in ends : \A f \in ends : e <= f) - 1)>>

\* section_pattern, piece by piece: a class taken once ("one"), a greedy
\* `class+`, a lazy `class+?`, and the alternation (LEC|REC|LAB) ("type")
SectionPattern ==
    << [class |-> DigitSet,                          kind |-> "greedy"],
       [class |-> SpaceSet,                          kind |-> "greedy"],
       [class |-> {"("},                             kind |-> "one"],
       [class |-> DigitSet,                          kind |-> "greedy"],
       [class |-> {")"},                             kind |-> "one"],
       [class |-> SpaceSet,                          kind |-> "greedy"],
       [class |-> LetterSet,                         kind |-> "greedy"],
       [class |-> SpaceSet,                          kind |-> "greedy"],
       [class |-> TimeSet,                           kind |-> "greedy"],
       [class |-> SpaceSet,                          kind |-> "greedy"],
       [class |-> UpperSet \cup DigitSet \cup SpaceSet, kind |-> "lazy"],
       [class |-> SpaceSet,                          kind |-> "greedy"],
       [class |-> LetterSet \cup SpaceSet,           kind |-> "lazy"],
       [class |-> SpaceSet,                          kind |-> "greedy"],
       [class |-> {},                                kind |-> "type"] >>

RECURSIVE MatchFrom(_, _, _)
RECURSIVE TryLengths(_, _, _, _, _)
\* piece j of the pattern takes n characters at pos, then fewer (greedy) or
\* more (lazy) when the rest of the pattern fails: the backtracking of re
TryLengths(s, j, pos, n, longest) ==
    IF n < 1 \/ n > longest THEN <<>>
    ELSE LET rest == MatchFrom(s, j + 1, pos + n)
         IN  IF rest # <<>> THEN <<pos + n>> \o rest
             ELSE TryLengths(s, j, pos,
                             IF SectionPattern[j].kind = "greedy" THEN n - 1 ELSE n + 1,
                             longest)

\* the pieces j.. of section_pattern matched at offset pos: <<>> when they
\* do not match, otherwise the offsets after each piece and pos of the end
MatchFrom(s, j, pos) ==
    IF j > Len(SectionPattern) THEN <<pos>>
    ELSE LET piece   == SectionPattern[j]
             longest == RunEnd(s, pos, piece.class) - pos
         IN  CASE piece.kind = "greedy" -> TryLengths(s, j, pos, longest, longest)
               [] piece.kind = "lazy"   -> TryLengths(s, j, pos, 1, longest)
               [] piece.kind = "one"    -> TryLengths(s, j, pos, 1, IF longest >= 1 THEN 1 ELSE 0)
               [] piece.kind = "type"   ->
                    IF pos + 2 <= Len(s) /\ SubSeq(s, pos, pos + 2) \in SectionTypes
                    THEN <<pos + 3>> \o MatchFrom(s, j + 1, pos + 3)
                    ELSE <<>>

\* the CourseSection built from a match of section_pattern that starts at
\* pos and whose pieces end before the offsets m
MatchedSection(s, pos, m) ==
    CourseSection(SubSeq(s, pos, m[1] - 1),
                  SubSeq(s, m[6], m[7] - 1),
                  SubSeq(s, m[8], m[9] - 1),
                  StrStrip(SubSeq(s, m[10], m[11] - 1)),
                  StrStrip(SubSeq(s, m[12], m[13] - 1)),
                  SubSeq(s, m[14], m[15] - 1))

RECURSIVE PrimaryPass(_, _)
\* re.findall(section_pattern, sections_text) from offset pos on, and the
\* loop that turns the matches into CourseSections: the leftmost match,
\* then the matches after its end
PrimaryPass(s, pos) ==
    LET starts == {p \in pos..Len(s) : MatchFrom(s, 1, p) # <<>>}
    IN  IF starts = {} THEN <<>>
        ELSE LET p == CHOOSE q \in starts : \A r \in starts : q <= r
                 m == MatchFrom(s, 1, p)
             IN  <<MatchedSection(s, p, m)>> \o PrimaryPass(s, m[15])

RECURSIVE SplitLines(_, _)
\* s.split('\n') from offset start on
SplitLines(s, start) ==
    LET stops == {i \in start..Len(s) : s[i] = "\n"}
    IN  IF stops = {} THEN <<SubSeq(s, start, Len(s))>>
        ELSE LET stop == CHOOSE i \in stops : \A j \in stops : i <= j
             IN  <<SubSeq(s, start, stop - 1)>> \o SplitLines(s, stop + 1)

RECURSIVE SplitWords(_, _)
\* s.split() from offset i on
SplitWords(s, i) ==
    LET first == RunEnd(s, i, SpaceSet)
    IN  IF first > Len(s) THEN <<>>
        ELSE LET last == CHOOSE j \in first..Len(s) :
                            /\ \A k \in first..j : s[k] \notin SpaceSet
                            /\ j = Len(s) \/ s[j + 1] \in SpaceSet
             IN  <<SubSeq(s, first, last)>> \o SplitWords(s, last + 1)

\* a line pattern that asks for the class number only: (\d{5})\s+(.+)
ClassMatchWithoutSectionNumber(line) ==
    IF Len(line) < 6 \/ \E i \in 1..5 : line[i] \notin DigitSet THEN <<>>
    ELSE LET info == RunEnd(line, 6, SpaceSet)
         IN  IF info > 6 /\ info <= Len(line)
             THEN <<SubSeq(line, 1, 5), SubSeq(line, info, Len(line))>>
             ELSE <<>>

\* re.match(r'(\d{5})\s+\((\d+)\)\s+(.+)', line) on a stripped line: <<>>
\* for no match, <<group(1), group(3)>> otherwise
ClassMatch(line) ==
    IF Len(line) < 6 \/ \E i \in 1..5 : line[i] \notin DigitSet THEN <<>>
    ELSE LET open   == RunEnd(line, 6, SpaceSet)
             close  == RunEnd(line, open + 1, DigitSet)
             info   == RunEnd(line, close + 1, SpaceSet)
         IN  IF /\ open > 6
                /\ open <= Len(line) /\ line[open] = "("
                /\ close > open + 1
                /\ close <= Len(line) /\ line[close] = ")"
                /\ info > close + 1
                /\ info <= Len(line)
             THEN <<SubSeq(line, 1, 5), SubSeq(line, info, Len(line))>>
             ELSE <<>>

\* re.match(r'[A-Z]+\s*\d+', part) on a part without whitespace
RoomLike(part) ==
    LET u == RunEnd(part, 1, UpperSet)
    IN  u > 1 /\ u <= Len(part) /\ part[u] \in DigitSet

RECURSIVE JoinWords(_, _, _)
\* ' '.join(parts[i..j])
JoinWords(parts, i, j) ==
    IF i > j THEN <<>>
    ELSE IF i = j THEN parts[i]
    ELSE parts[i] \o <<" ">> \o JoinWords(parts, i + 1, j)

RECURSIVE ScanParts(_, _, _)
\* the loop over info_parts[2:], at part i (counted from 1), with the
\* room, instructor and section_type found so far
ScanParts(parts, i, found) ==
    IF i > Len(parts) THEN found
    ELSE IF RoomLike(parts[i])
    THEN ScanParts(parts, i + 1,
                   [found EXCEPT !.room = JoinWords(parts, i, IF i + 1 <= Len(parts)
                                                              THEN i + 1 ELSE i)])
    ELSE IF parts[i] \in SectionTypes
    THEN ScanParts(parts, i + 1, [found EXCEPT !.section_type = parts[i]])
    ELSE IF found.section_type = <<>> /\ parts[i][1] \in LetterSet
    THEN LET types == {j \in i..Len(parts) : parts[j] \in SectionTypes}
         IN  IF types = {} THEN [found EXCEPT !.instructor = JoinWords(parts, i, Len(parts))]
             ELSE LET stop == CHOOSE j \in types : \A k \in types : j <= k
                  IN  [found EXCEPT !.instructor = JoinWords(parts, i, stop - 1),
                                    !.section_type = parts[stop]]
    ELSE ScanParts(parts, i + 1, found)

\* what one line adds to sections in the fallback pass
LineSections(raw_line) ==
    LET line == StrStrip(raw_line)
        class_match == IF line = <<>> THEN <<>> ELSE ClassMatch(line)
    IN  IF class_match = <<>> THEN <<>>
        ELSE LET info_parts == SplitWords(class_match[2], 1)
             IN  IF Len(info_parts) < 4 THEN <<>>
                 ELSE LET days  == IF \A i \in 1..Len(info_parts[1]) :
                                         info_parts[1][i] \in LetterSet
                                   THEN info_parts[1] ELSE <<>>
                          times == IF info_parts[2][1] \in TimeSet
                                   THEN info_parts[2] ELSE <<>>
                          found == ScanParts(info_parts, 3,
                                      [room |-> <<>>, instructor |-> <<>>, section_type |-> <<>>])
                      IN  <<CourseSection(class_match[1], days, times, StrStrip(found.room),
                                          StrStrip(found.instructor), found.section_type)>>

RECURSIVE FallbackPass(_, _)
\* the loop over lines[i..]
FallbackPass(lines, i) ==
    IF i > Len(lines) THEN <<>>
    ELSE LineSections(lines[i]) \o FallbackPass(lines, i + 1)

\* a parser that runs both passes and returns what either found
ParseSectionsTableBothPasses(text) ==
    LET found == SectionsText(text)
    IN  IF found = <<>> THEN <<>>
        ELSE PrimaryPass(found[1], 1) \o FallbackPass(SplitLines(found[1], 1), 1)

\* _parse_sections_table(soup, text)
ParseSectionsTable(text) ==
    LET found == SectionsText(text)
    IN  IF found = <<>> THEN <<>>
        ELSE LET primary == PrimaryPass(found[1], 1)
             IN  IF primary # <<>> THEN primary
                 ELSE FallbackPass(SplitLines(found[1], 1), 1)

-----------------------------------------------------------------------------
(* _parse_sections_table as a specification of its own                     *)

\* Rows of a 'Current Sections' region. well_formed: section_pattern
\* matches the row; section: what the row is to yield, in the primary pass
\* when it is well formed, in the fallback pass otherwise.
RowLecture ==
    [text |-> <<"1","8","5","8","2"," ","(","1","1","0","0",")"," ","T","u","T","h"," ","1",":","0","0","p","m","-","2",":","1","5","p","m"," ","L","A","W","R","N"," ","1","0","4"," ","M","a","r","i","n","a"," ","B","a","r","s","k","y"," ","L","E","C">>,
     well_formed |-> TRUE,
     section |-> <<CourseSection(<<"1","8","5","8","2">>, <<"T","u","T","h">>, <<"1",":","0","0","p","m","-","2",":","1","5","p","m">>, <<"L","A","W","R","N"," ","1","0","4">>,
                                 <<"M","a","r","i","n","a"," ","B","a","r","s","k","y">>, <<"L","E","C">>)>>]

RowRecitation ==
    [text |-> <<"1","8","5","8","3"," ","(","1","2","0","0",")"," ","F"," ","9",":","0","0","a","m","-","9",":","5","0","a","m"," ","I","S"," ","4","0","5"," ","B","o"," ","L","i"," ","R","E","C">>,
     well_formed |-> TRUE,
     section |-> <<CourseSection(<<"1","8","5","8","3">>, <<"F">>, <<"9",":","0","0","a","m","-","9",":","5","0","a","m">>, <<"I","S"," ","4","0","5">>, <<"B","o"," ","L","i">>, <<"R","E","C">>)>>]

\* a second row of class number 18582
RowDuplicate ==
    [text |-> <<"1","8","5","8","2"," ","(","1","1","5","0",")"," ","F"," ","3",":","0","0","p","m","-","3",":","5","0","p","m"," ","I","S"," ","4","0","5"," ","B","o"," ","L","i"," ","L","A","B">>,
     well_formed |-> TRUE,
     section |-> <<CourseSection(<<"1","8","5","8","2">>, <<"F">>, <<"3",":","0","0","p","m","-","3",":","5","0","p","m">>, <<"I","S"," ","4","0","5">>, <<"B","o"," ","L","i">>, <<"L","A","B">>)>>]

\* the row of RowLecture without the parentheses of the section number
RowNoParen ==
    [text |-> <<"1","8","5","8","4"," ","1","3","0","0"," ","T","u","T","h"," ","1",":","0","0","p","m","-","2",":","1","5","p","m"," ","L","A","W","R","N"," ","1","0","4"," ","M","a","r","i","n","a"," ","B","a","r","s","k","y"," ","L","E","C">>,
     well_formed |-> FALSE,
     section |-> <<>>]

\* the times in upper case, which [0-9:apmn-]+ does not take
RowUpperTime ==
    [text |-> <<"1","8","5","8","5"," ","(","1","4","0","0",")"," ","M","W"," ","1",":","0","0","P","M","-","2",":","1","5","P","M"," ","L","A","W","R","N"," ","1","0","4"," ","A","n","n"," ","W","u"," ","L","E","C">>,
     well_formed |-> FALSE,
     section |-> <<CourseSection(<<"1","8","5","8","5">>, <<"M","W">>, <<"1",":","0","0","P","M","-","2",":","1","5","P","M">>, <<>>,
                                 <<"L","A","W","R","N"," ","1","0","4"," ","A","n","n"," ","W","u">>, <<"L","E","C">>)>>]

\* the room written without its space
RowRoomGlued ==
    [text |-> <<"1","8","5","8","6"," ","(","1","5","0","0",")"," ","M","W"," ","1",":","0","0","P","M","-","2",":","1","5","P","M"," ","I","S","4","0","5"," ","A","n","n"," ","W","u"," ","L","E","C">>,
     well_formed |-> FALSE,
     section |-> <<CourseSection(<<"1","8","5","8","6">>, <<"M","W">>, <<"1",":","0","0","P","M","-","2",":","1","5","P","M">>, <<"I","S","4","0","5"," ","A","n","n">>,
                                 <<"A","n","n"," ","W","u">>, <<"L","E","C">>)>>]

\* class number and section number, then four parts that are no days, no
\* times, no room, no name and no type
RowUnclassified ==
    [text |-> <<"1","8","5","8","7"," ","(","1","6","0","0",")"," ","?","?"," ","?","?"," ","?","?"," ","?","?">>,
     well_formed |-> FALSE,
     section |-> <<CourseSection(<<"1","8","5","8","7">>, <<>>, <<>>, <<>>, <<>>, <<>>)>>]

\* the same with one part only
RowShort ==
    [text |-> <<"1","8","5","8","8"," ","(","1","7","0","0",")"," ","?","?">>,
     well_formed |-> FALSE,
     section |-> <<>>]

SectionRows ==
    {RowLecture, RowRecitation, RowDuplicate, RowNoParen, RowUpperTime, RowRoomGlued,
     RowUnclassified, RowShort}

\* the rows of the longest region
MaxRows == 2

RECURSIVE RowSeqs(_)
\* the sequences of at most n rows
RowSeqs(n) ==
    IF n = 0 THEN {<<>>}
    ELSE LET shorter == RowSeqs(n - 1)
         IN  shorter \cup {rows \o <<row>> : rows \in shorter, row \in SectionRows}

SectionsHead == <<"F","a","l","l"," ","2","0","2","5">> \o <<"\n">> \o <<"C","u","r","r","e","n","t"," ","S","e","c","t","i","o","n","s">>

\* what follows the region: nothing, or the footer and a row under it
SectionsTails ==
    {<<>>,
     <<"\n">> \o <<"S","c","h","o","o","l"," ","o","f"," ","C","o","m","p","u","t","i","n","g">> \o <<"\n">>
        \o <<"1","8","5","9","9"," ","(","1",")"," ","M","W"," ","1",":","0","0","p","m","-","2",":","1","5","p","m"," ","I","S"," ","4","0","5"," ","B","o"," ","L","i"," ","L","E","C">>}

RECURSIVE RowLines(_, _)
\* the rows i.. , each on a line of its own
RowLines(rows, i) ==
    IF i > Len(rows) THEN <<>>
    ELSE <<"\n">> \o rows[i].text \o RowLines(rows, i + 1)

\* the text of a page with these rows under 'Current Sections'
SectionsPage(rows, tail) == SectionsHead \o RowLines(rows, 1) \o tail

SectionTexts ==
    {SectionsPage(rows, tail) : rows \in RowSeqs(MaxRows), tail \in SectionsTails}
        \cup {RowLecture.text}

InitSections ==
    /\ InitClient
    /\ prereq_string = <<>>
    /\ parsed_prereqs = <<>>
    /\ sections_text \in SectionTexts
    /\ sections = <<>>
    /\ EmptyDatabase

\* self._parse_sections_table(soup, text) is called
ParseSections ==
    /\ sections = <<>>
    /\ sections' = <<ParseSectionsTable(sections_text)>>
    /\ UNCHANGED <<sections_text, prereq_string, parsed_prereqs, clientVars, dbVars>>

NextSections == ParseSections

SpecSections == InitSections /\ [][NextSections]_vars

-----------------------------------------------------------------------------
(* the client under calls that overlap: a call is dispatched while others  *)
(* are suspended in a fetch, and each runs from one suspension to the next *)
(* without interruption                                                    *)

\* the listing pages served while calls overlap: no code is listed twice
AsyncListings == { <<LinkAbout, LinkA>>, <<LinkA, LinkB>> }

\* the detail pages served while calls overlap
AsyncDetailPages == {PageFull, PageNoDescription}

NextAsync ==
    \E k \in CallIds :
        \/ CallGetAllCourses(k)
        \/ DetailsCall(k, {CS0445})
        \/ SearchCall(k, {QueryCS}, {<<>>})
        \/ ListFetch(k, AsyncListings)
        \/ ListFetchFails(k)
        \/ DetailFetch(k, AsyncDetailPages)
        \/ DetailFetchFails(k)

SpecAsync == Init /\ [][NextAsync]_vars

-----------------------------------------------------------------------------
(* The course database (src/pitt-cs-system/backend): the official-site     *)
(* scraper, which logs a DataConflict when it overwrites a field of        *)
(* another source, and the reconciler, which settles the logged conflicts  *)

\* rows of the courses table a run may start from
MaxCourseRows == 2

NoneText == <<"N","o","n","e">>

Digits == <<"0","1","2","3","4","5","6","7","8","9">>

\* the columns of Course that hold integers
IntegerColumns == {"credits_min", "credits_max"}

RECURSIVE IntStr(_)
\* str(n) of an int n >= 0
IntStr(n) == IF n < 10 THEN <<Digits[n + 1]>> ELSE IntStr(n \div 10) \o <<Digits[(n % 10) + 1]>>

\* the text is a run of decimal digits
IsDigits(text) == text # <<>> /\ \A i \in 1..Len(text) : text[i] \in DigitSet

RECURSIVE IntOf(_)
\* int(text) of a run of digits
IntOf(text) ==
    IF text = <<>> THEN 0
    ELSE 10 * IntOf(SubSeq(text, 1, Len(text) - 1))
            + ((CHOOSE d \in 1..10 : Digits[d] = text[Len(text)]) - 1)

\* str(value) of a column value: <<>> is None
Str(field_name, value) ==
    IF value = <<>> THEN NoneText
    ELSE IF field_name \in IntegerColumns THEN IntStr(value[1])
    ELSE value[1]

\* a row of the courses table, NULL columns as <<>>
CourseRow(code, title, sci_href) ==
    [code |-> code, title |-> title, sci_href |-> sci_href, description |-> <<>>,
     prerequisites |-> <<>>, credits_min |-> <<>>, credits_max |-> <<>>]

\* the database as one value: the three tables
Database == [rows |-> course_rows, sources |-> course_sources, conflicts |-> data_conflicts]

\* update_field(session, course, field_name, new_value, new_source)
UpdateField(db, id, field_name, new_value, new_source) ==
    LET existing_value  == db.rows[id][field_name]
        key             == <<id, field_name>>
        existing_source == IF key \in DOMAIN db.sources THEN <<db.sources[key]>> ELSE <<>>
        conflict ==
            [course_id |-> id, field_name |-> field_name,
             wiki_value |-> IF existing_source = <<"wiki">>
                            THEN <<Str(field_name, existing_value)>> ELSE <<>>,
             official_value |-> IF new_source = "official"
                                THEN <<Str(field_name, <<new_value>>)>> ELSE <<>>,
             resolved |-> FALSE]
    IN  [rows |-> [db.rows EXCEPT ![id][field_name] = <<new_value>>],
         sources |-> [k \in (DOMAIN db.sources) \cup {key} |->
                         IF k = key THEN new_source ELSE db.sources[k]],
         conflicts |-> IF /\ existing_source # <<new_source>>
                          /\ Str(field_name, existing_value) # Str(field_name, <<new_value>>)
                       THEN Append(db.conflicts, conflict)
                       ELSE db.conflicts]

\* A course page of the official site, as what scrape_official_site finds on
\* it: error tells that the request failed; h1 is <<>> or <<its text>>; p
\* tells that a <p> follows the <h1>, and description is <<>> or <<the text
\* of the <p> inside it>>; details tells that a second <p> follows, and
\* requirements, minimum and maximum are <<>> or <<the text after the bold
\* span of that name>>.
OfficialPage(h1, p, description, details, requirements, minimum, maximum) ==
    [error |-> FALSE, h1 |-> h1, p |-> p, description |-> description, details |-> details,
     requirements |-> requirements, minimum |-> minimum, maximum |-> maximum]

OfficialFull ==
    OfficialPage(<<Algorithms>>, TRUE, <<DescSorting>>, TRUE, <<PreqText>>, <<<<"4">>>>, <<<<"4">>>>)

\* the title the courses table already holds, and nothing else
OfficialHeadingOnly ==
    OfficialPage(<<AlgorithmImplementation>>, TRUE, <<>>, FALSE, <<>>, <<>>, <<>>)

OfficialNoHeading == OfficialPage(<<>>, FALSE, <<>>, FALSE, <<>>, <<>>, <<>>)

OfficialCreditsTBA ==
    OfficialPage(<<Algorithms>>, TRUE, <<DescSorting>>, TRUE, <<>>, <<<<"T","B","A">>>>, <<>>)

RequestError == [OfficialNoHeading EXCEPT !.error = TRUE]

OfficialPages ==
    {OfficialFull, OfficialHeadingOnly, OfficialNoHeading, OfficialCreditsTBA, RequestError}

\* the loop body of scrape_official_site raises on this page: find_next_sibling
\* on a missing <h1> or a missing <p>, or int() on a text that is no number
PageRaises(page) ==
    \/ page.h1 = <<>>
    \/ ~page.p
    \/ page.details /\ page.minimum # <<>> /\ ~IsDigits(page.minimum[1])
    \/ page.details /\ page.maximum # <<>> /\ ~IsDigits(page.maximum[1])

\* the loop body of scrape_official_site for one course whose page raises
\* nothing: the fields found are passed to update_field one after the other
ScrapeCourse(db, id, page) ==
    LET d1 == UpdateField(db, id, "title", page.h1[1], "official")
        d2 == IF page.description # <<>>
              THEN UpdateField(d1, id, "description", page.description[1], "official") ELSE d1
        d3 == IF page.details /\ page.requirements # <<>>
              THEN UpdateField(d2, id, "prerequisites", page.requirements[1], "official") ELSE d2
        d4 == IF page.details /\ page.minimum # <<>>
              THEN UpdateField(d3, id, "credits_min", IntOf(page.minimum[1]), "official") ELSE d3
    IN  IF page.details /\ page.maximum # <<>>
        THEN UpdateField(d4, id, "credits_max", IntOf(page.maximum[1]), "official") ELSE d4

RECURSIVE ScrapeFrom(_, _, _)
\* the loop of scrape_official_site over the courses id.. that have a
\* sci_href; a course whose request fails is passed over
ScrapeFrom(db, id, served) ==
    IF id > Len(db.rows) THEN db
    ELSE IF db.rows[id].sci_href = <<>> \/ served[id].error THEN ScrapeFrom(db, id + 1, served)
    ELSE ScrapeFrom(ScrapeCourse(db, id, served[id]), id + 1, served)

\* the tables take the values of db at session.commit()
Commit(db, run) ==
    /\ course_rows' = db.rows
    /\ course_sources' = db.sources
    /\ data_conflicts' = db.conflicts
    /\ last_run' = run

\* scrape_official_site: each course that has a sci_href is served one of the
\* pages. The commit comes after the loop, so a run in which a page raises
\* leaves the database as it was; otherwise the run commits what the loop
\* has written.
ScrapeOfficialSite(pages) ==
    LET courses_to_scrape == {id \in DOMAIN course_rows : course_rows[id].sci_href # <<>>}
        aborted == /\ \E page \in pages : ~page.error /\ PageRaises(page)
                   /\ UNCHANGED dbVars
        committed ==
            \E served \in [courses_to_scrape -> {page \in pages : page.error \/ ~PageRaises(page)}] :
                Commit(ScrapeFrom(Database, 1, served), "scrape_official_site")
    IN  /\ courses_to_scrape # {}
        /\ aborted \/ committed
        /\ UNCHANGED <<clientVars, parseVars>>

\* a reconciler for which the official source wins every field
WinningValueOfficialAlways(conflict) == conflict.official_value

\* the rules of reconcile_data: the value of the winning source, <<>> for None
WinningValue(conflict) ==
    IF conflict.field_name \in {"credits_min", "credits_max", "prerequisites", "title"}
    THEN conflict.official_value
    ELSE IF conflict.field_name = "description" THEN conflict.wiki_value
    ELSE conflict.official_value

\* what a column holds once the text set on it is committed: a column of
\* integers turns a run of digits into its number
Committed(field_name, text) ==
    IF field_name \in IntegerColumns /\ IsDigits(text) THEN IntOf(text) ELSE text

RECURSIVE ReconcileFrom(_, _)
\* the loop of reconcile_data over the unresolved conflicts i..: a conflict
\* whose course is missing is passed over; otherwise a winning value that is
\* not None is set on the course, and the conflict is marked resolved
ReconcileFrom(db, i) ==
    IF i > Len(db.conflicts) THEN db
    ELSE LET conflict == db.conflicts[i]
             winning_value == WinningValue(conflict)
         IN  IF conflict.resolved \/ conflict.course_id \notin DOMAIN db.rows
             THEN ReconcileFrom(db, i + 1)
             ELSE ReconcileFrom(
                    [db EXCEPT !.rows[conflict.course_id][conflict.field_name] =
                                   IF winning_value # <<>>
                                   THEN <<Committed(conflict.field_name, winning_value[1])>>
                                   ELSE @,
                               !.conflicts[i].resolved = TRUE],
                    i + 1)

\* reconcile_data, when the query finds unresolved conflicts
ReconcileData ==
    /\ \E i \in 1..Len(data_conflicts) : ~data_conflicts[i].resolved
    /\ Commit(ReconcileFrom(Database, 1), "reconcile_data")
    /\ UNCHANGED <<clientVars, parseVars>>

\* the text columns of a course the wiki has filled
WikiRow(code, sci_href) ==
    [CourseRow(code, <<AlgorithmImplementation>>, sci_href) EXCEPT
        !.description = <<DescAlgorithms>>, !.credits_min = <<3>>, !.credits_max = <<3>>]

\* the rows the courses table may hold for a course, with the sources
\* recorded for their fields: a row the wiki has filled, with or without a
\* link to the official site, and a row of no recorded source
RowShapes(code) ==
    { [row |-> WikiRow(code, <<BASE_URL \o HrefA>>),
       sourced |-> {"title", "description", "credits_min", "credits_max"}],
      [row |-> WikiRow(code, <<>>),
       sourced |-> {"title", "description", "credits_min", "credits_max"}],
      [row |-> [CourseRow(code, <<AlgorithmImplementation>>, <<BASE_URL \o HrefA>>)
                    EXCEPT !.description = <<DescAlgorithms>>],
       sourced |-> {}] }

\* Course.code is unique: the row of id 1 is CS-1001, the row of id 2 CS-1002
RowCode(id) == <<"C","S","-">> \o IntStr(1000 + id)

\* the keys of the course_sources rows of these shapes
SourcedKeys(shapes) ==
    UNION {{<<id, f>> : f \in shapes[id].sourced} : id \in DOMAIN shapes}

InitReconcile ==
    /\ InitClient
    /\ prereq_string = <<>>
    /\ parsed_prereqs = <<>>
    /\ sections_text = <<>>
    /\ sections = <<>>
    /\ \E n \in 1..MaxCourseRows :
         \E shapes \in [1..n -> UNION {RowShapes(RowCode(id)) : id \in 1..n}] :
            /\ \A id \in 1..n : shapes[id] \in RowShapes(RowCode(id))
            /\ course_rows = [id \in 1..n |-> shapes[id].row]
            /\ course_sources = [k \in SourcedKeys(shapes) |-> "wiki"]
    /\ data_conflicts = <<>>
    /\ last_run = ""

NextReconcile ==
    \/ ScrapeOfficialSite(OfficialPages)
    \/ ReconcileData

SpecReconcile == InitReconcile /\ [][NextReconcile]_vars

-----------------------------------------------------------------------------
(* The claims                                                              *)

\* C1: for all codes X, Y, Z of the shape DEPT-NNNN, parse_prerequisites of
\* "X and Y or Z" is [[X,Y],[Z]] and of "X or Y and Z" is [[X],[Y,Z]]: 'or'
\* is split before 'and'.
C1_OrSplitsBeforeAnd ==
    parsed_prereqs # <<>> =>
        \A X \in ParseCodes, Y \in ParseCodes, Z \in ParseCodes :
            /\ prereq_string = AndOr(X, Y, Z) => parsed_prereqs[1] = <<<<X, Y>>, <<Z>>>>
            /\ prereq_string = OrAnd(X, Y, Z) => parsed_prereqs[1] = <<<<X>>, <<Y, Z>>>>

\* "OR-1234 or AND-0001 and CS-0441" has been parsed
C1_Witness ==
    /\ prereq_string = OrAnd(OR1234, AND0001, CS0441)
    /\ parsed_prereqs = <<<<<<OR1234>>, <<AND0001, CS0441>>>>>>

\* the codes of the courses of the current listing
ListingCodes == {heap[courses_list_cache[i]].code : i \in 1..Len(courses_list_cache)}

\* the objects the detail cache refers to
CachedObjects == {courses_cache[c] : c \in DOMAIN courses_cache}

\* the last step finished a call of the tool
Returned(tool) == returned.pc = "done" /\ returned.tool = tool

\* C2: on a listing that holds CS-0445, get_course_details("CS 0445") and
\* get_course_details("CS-0445") resolve to the same cached Course: both
\* look up the key CS-0445, both find the course, and what either returns
\* is the entry of the detail cache under that key.
C2_BothSpellingsSameEntry ==
    (Returned("get_course_details") /\ returned.arg \in {CS0445, CS_0445_spaced}) =>
        /\ returned.course_code = CS0445
        /\ (CS0445 \in ListingCodes /\ ~returned.failed) => returned.ret # <<>>
        /\ returned.ret # <<>> =>
              /\ CS0445 \in DOMAIN courses_cache
              /\ returned.ret = <<courses_cache[CS0445]>>

\* get_course_details("CS 0445") has returned the course from the cache
C2_Witness ==
    /\ Returned("get_course_details")
    /\ returned.arg = CS_0445_spaced
    /\ returned.hit
    /\ returned.ret = <<courses_cache[CS0445]>>
    /\ CS0445 \in ListingCodes

\* this step stores a fetched listing (get_all_courses, lines 319-324)
ListStored ==
    \E k \in CallIds :
        /\ calls[k].pc = "list_fetch"
        /\ calls'[k].pc # "list_fetch"
        /\ ~returned'.failed

\* this step is the call get_course_details(arg), made while no call is in flight
DetailsCalled(arg) ==
    /\ Quiet
    /\ \/ \E k \in CallIds : calls'[k].tool = "get_course_details" /\ calls'[k].arg = arg
       \/ /\ returned'.pc = "done"
          /\ returned'.tool = "get_course_details"
          /\ returned'.arg = arg

\* the detail cache holds, under the code, a course with a non-empty description
HoldsDetailed(code) ==
    \E id \in CachedObjects :
        /\ code \in DOMAIN courses_cache
        /\ courses_cache[code] = id
        /\ Len(heap[id].description) > 0

\* C3: once the detail cache holds a course with a non-empty description
\* under a code, it keeps holding that course, unchanged, until a listing is
\* stored, and every get_course_details(code) made meanwhile returns that
\* course at once, having requested no page and changed nothing.
C3_DetailedIsServedFromCache ==
    [][\A arg \in CodeArgs :
          HoldsDetailed(NormalizeCode(arg)) =>
              LET id == courses_cache[NormalizeCode(arg)]
              IN  /\ ~ListStored =>
                        /\ NormalizeCode(arg) \in DOMAIN courses_cache'
                        /\ courses_cache'[NormalizeCode(arg)] = id
                        /\ heap'[id] = heap[id]
                  /\ DetailsCalled(arg) =>
                        /\ returned'.pc = "done"
                        /\ returned'.ret = <<id>>
                        /\ returned'.fetched = {}
                        /\ UNCHANGED <<courses_cache, courses_list_cache, heap>>]_vars

\* get_course_details("CS-0445") has returned the detailed course from the
\* cache, without a fetch
C3_Witness ==
    /\ Returned("get_course_details")
    /\ returned.arg = CS0445
    /\ returned.hit
    /\ returned.fetched = {}
    /\ heap[returned.ret[1]].description = DescSorting

\* C4: after a get_all_courses call that refetched the listing, the detail
\* cache holds no course that was detailed before, and each of its entries
\* is a course of the new listing.
C4_RefetchReplacesDetailCache ==
    (Returned("get_all_courses") /\ "listing" \in returned.fetched /\ ~returned.failed) =>
        \A c \in DOMAIN courses_cache :
            /\ heap[courses_cache[c]].description = <<>>
            /\ \E i \in 1..Len(courses_list_cache) : courses_list_cache[i] = courses_cache[c]

\* C5: get_course_details(code) returns None whenever the current listing
\* holds no course of that normalised code.
C5_AbsentWhenNotListed ==
    (Returned("get_course_details") /\ ~returned.failed /\ returned.out # "required") =>
        (returned.course_code \notin ListingCodes => returned.ret = <<>>)

\* sub occurs in s, the case of the letters aside
OccursIgnoringCase(sub, s) ==
    \E i \in 1..(Len(s) + 1) :
        /\ i + Len(sub) - 1 <= Len(s)
        /\ StrLower(SubSeq(s, i, i + Len(sub) - 1)) = StrLower(sub)

\* the part of a code before its first separator (hyphen or space)
BeforeFirstSeparator(code) ==
    LET seps == {i \in 1..Len(code) : code[i] \in {"-", " "}}
    IN  IF seps = {} THEN code
        ELSE SubSeq(code, 1, (CHOOSE i \in seps : \A j \in seps : i <= j) - 1)

\* the course is one that search_courses(query, department) is to return
Wanted(course, query, department) ==
    /\ \/ OccursIgnoringCase(query, course.code)
       \/ OccursIgnoringCase(query, course.title)
       \/ Len(course.description) > 0 /\ OccursIgnoringCase(query, course.description)
    /\ (department # <<>> /\ Len(department[1]) > 0) =>
            StrLower(BeforeFirstSeparator(course.code)) = StrLower(department[1])

WantedByReturned(id) == Wanted(heap[id], returned.arg, returned.department)

\* C6: search_courses(query, department) returns exactly the courses of the
\* listing, in listing order, whose code, title or non-empty description
\* holds the query case-insensitively and whose department prefix (the code
\* before its first separator) equals the department, when one is given,
\* case-insensitively.
C6_SearchIsTheFilteredListing ==
    (Returned("search_courses") /\ returned.out \in {"text", "no_results"}) =>
        returned.ret = SelectSeq(courses_list_cache, WantedByReturned)

\* a search for "0" in department "cs" has returned two of three courses
C6_Witness ==
    /\ Returned("search_courses")
    /\ returned.arg = QueryZero
    /\ returned.department = <<DeptCS>>
    /\ Len(courses_list_cache) = 3
    /\ returned.ret = <<1, 3>>

\* the catalog holds one course, titled "Algorithm Implementation", whose
\* description has not been fetched
OneShallowCourse ==
    /\ Len(courses_list_cache) = 1
    /\ heap[courses_list_cache[1]].title = AlgorithmImplementation
    /\ heap[courses_list_cache[1]].description = <<>>

\* C7 as claimed: on that catalog, search_courses(query="algorithms")
\* returns the course.
C7_AlgorithmsFindsTheCourse ==
    (Returned("search_courses") /\ returned.arg = QueryAlgorithms
        /\ returned.department = <<>> /\ OneShallowCourse)
        => returned.ret = courses_list_cache

\* C7 as amended: on that catalog, search_courses(query="algorithm") returns
\* the course, by its title alone, and search_courses(query="algorithms")
\* returns no course, "algorithms" being no substring of the title.
C7_AlgorithmFindsTheCourse ==
    (Returned("search_courses") /\ returned.department = <<>> /\ OneShallowCourse) =>
        /\ returned.arg = QueryAlgorithm =>
              /\ returned.ret = courses_list_cache
              /\ returned.out = "text"
              /\ ~OccursIgnoringCase(QueryAlgorithm, heap[courses_list_cache[1]].code)
        /\ returned.arg = QueryAlgorithms =>
              /\ returned.ret = <<>>
              /\ returned.out = "no_results"

\* search_courses(query="algorithm") has returned the one course of the catalog
C7_Witness ==
    /\ Returned("search_courses")
    /\ returned.arg = QueryAlgorithm
    /\ returned.department = <<>>
    /\ OneShallowCourse
    /\ returned.ret = <<1>>

\* this step starts a search_courses call
SearchStarts ==
    /\ Quiet
    /\ \/ \E k \in CallIds : calls'[k].tool = "search_courses"
       \/ Quiet' /\ returned'.pc = "done" /\ returned'.tool = "search_courses"

\* this step resumes a search_courses call from its listing fetch
SearchResumes ==
    \E k \in CallIds : calls[k].tool = "search_courses" /\ calls[k].pc = "list_fetch"

\* during this step of a search call: no detail page is requested and no
\* field of an existing Course changes
NoExtraction ==
    /\ \A k \in CallIds : calls'[k].pc # "detail_fetch"
    /\ "detail" \notin returned'.fetched
    /\ \A id \in DOMAIN heap : id \in DOMAIN heap' /\ heap'[id] = heap[id]

\* a search call that starts on a non-empty list cache requests no page
NoFetchOnListedCatalog ==
    (SearchStarts /\ courses_list_cache # <<>>) =>
        /\ Quiet'
        /\ list_fetches' = list_fetches
        /\ returned'.fetched = {}

\* C8 as claimed: a search call issues no detail-page fetch, changes no
\* field of any Course and leaves the detail cache unchanged; with a
\* non-empty list cache it issues no fetch at all.
C8_SearchLeavesDetailCacheUnchanged ==
    [][(SearchStarts \/ SearchResumes) =>
          /\ NoExtraction
          /\ courses_cache' = courses_cache
          /\ NoFetchOnListedCatalog]_vars

\* the detail cache after a listing is stored: every listed code refers to
\* a new, shallow Course of the list cache, every other entry stays
ListingEntered ==
    /\ DOMAIN courses_cache \subseteq DOMAIN courses_cache'
    /\ \A i \in 1..Len(courses_list_cache') :
          /\ courses_list_cache'[i] \notin DOMAIN heap
          /\ heap'[courses_list_cache'[i]].description = <<>>
          /\ heap'[courses_list_cache'[i]].last_pass = "none"
    /\ \A c \in DOMAIN courses_cache' :
          \/ /\ c \in DOMAIN courses_cache
             /\ courses_cache'[c] = courses_cache[c]
             /\ \A i \in 1..Len(courses_list_cache') : heap'[courses_list_cache'[i]].code # c
          \/ \E i \in 1..Len(courses_list_cache') :
                /\ courses_cache'[c] = courses_list_cache'[i]
                /\ heap'[courses_list_cache'[i]].code = c

\* C8 as amended: a search call issues no detail-page fetch and changes no
\* field of any Course. With a non-empty list cache it issues no fetch at
\* all and leaves both caches unchanged. With an empty list cache it fetches
\* the listing; storing it sets the detail-cache entry of every listed code
\* to the listing's new shallow Course and leaves the other entries, and a
\* failed fetch leaves both caches unchanged.
C8_SearchNeverExtracts ==
    [][(SearchStarts \/ SearchResumes) =>
          /\ NoExtraction
          /\ NoFetchOnListedCatalog
          /\ SearchStarts => UNCHANGED <<courses_cache, courses_list_cache, heap>>
          /\ SearchResumes =>
                /\ courses_list_cache = <<>>
                /\ \/ ListingEntered
                   \/ UNCHANGED <<courses_cache, courses_list_cache, heap>>
                /\ returned'.failed => UNCHANGED <<courses_cache, courses_list_cache, heap>>]_vars

\* a search call has fetched the listing, entered its courses in the detail
\* cache and returned one of them
C8_Witness ==
    /\ Returned("search_courses")
    /\ "listing" \in returned.fetched
    /\ ~returned.failed
    /\ returned.ret # <<>>
    /\ \E c \in DOMAIN courses_cache : courses_cache[c] = returned.ret[1]

\* the fetch that slot k's tool call waits for fails in this step
FetchFailsIn(k) ==
    /\ calls[k].pc \in {"list_fetch", "detail_fetch"}
    /\ calls[k].tool \in {"search_courses", "get_course_details"}
    /\ calls'[k].pc = "idle"
    /\ returned'.failed

\* C9 as claimed: when the fetch of the listing page or of a detail page
\* fails during a tool call, the call ends with an internal error and the
\* list cache and the detail cache are unchanged.
C9_FetchFailureIsInternalError ==
    [][\A k \in CallIds :
          FetchFailsIn(k) =>
              /\ returned'.out = "internal_error"
              /\ UNCHANGED <<courses_cache, courses_list_cache>>]_vars

\* C9 as amended: a failed fetch of the listing page ends the tool call
\* with an internal error and leaves both caches unchanged. A failed fetch
\* of a detail page is swallowed: the call ends normally and returns the
\* listing's course of that code with no field changed, the list cache is
\* unchanged, and the detail cache changes at most at the normalised code,
\* which refers to the returned course.
C9_OnlyListingFailureIsInternalError ==
    [][\A k \in CallIds :
          FetchFailsIn(k) =>
              /\ calls[k].pc = "list_fetch" =>
                    /\ returned'.out = "internal_error"
                    /\ returned'.ret = <<>>
                    /\ UNCHANGED <<courses_cache, courses_list_cache, heap>>
              /\ calls[k].pc = "detail_fetch" =>
                    /\ returned'.out = "text"
                    /\ Len(returned'.ret) = 1
                    /\ \E i \in 1..Len(courses_list_cache) :
                          courses_list_cache[i] = returned'.ret[1]
                    /\ heap[returned'.ret[1]].code = returned'.course_code
                    /\ UNCHANGED <<courses_list_cache, heap>>
                    /\ DOMAIN courses_cache' = DOMAIN courses_cache \cup {returned'.course_code}
                    /\ courses_cache'[returned'.course_code] = returned'.ret[1]
                    /\ \A c \in DOMAIN courses_cache :
                          c # returned'.course_code => courses_cache'[c] = courses_cache[c]]_vars

\* get_course_details has returned a course whose detail page could not be
\* fetched
C9_Witness ==
    /\ Returned("get_course_details")
    /\ returned.failed
    /\ "detail" \in returned.fetched
    /\ returned.out = "text"
    /\ returned.ret # <<>>
    /\ heap[returned.ret[1]].description = <<>>

\* C10: in every reachable state, a Course with a non-empty description has
\* had its last extraction pass run to the end.
C10_DetailedMeansCompletePass ==
    \A id \in DOMAIN heap :
        heap[id].description # <<>> => heap[id].last_pass = "complete"

\* C11: a call of any of the six tools whose required argument is missing
\* or empty is answered with the textual "... is required" message, having
\* requested no page.
C11_EmptyArgumentRejectedAtOnce ==
    (returned.pc = "done" /\ returned.tool \in Tools /\ returned.arg = <<>>) =>
        /\ returned.out = "required"
        /\ returned.fetched = {}

\* the department is none of the recognised codes, in either case of the letters
Unrecognised(department) ==
    department # <<>> /\ StrUpper(department) \notin RecognisedDepartments

\* C12: a department that is none of CS, INFSCI, CMPINF, LIS, TELCOM, ISSP
\* is accepted and yields no matches, in search_courses with a department
\* filter and in list_courses_by_department.
C12_UnrecognisedDepartmentYieldsNothing ==
    /\ (Returned("search_courses") /\ DepartmentGiven(returned.department)
            /\ Unrecognised(returned.department[1])) =>
          (returned.out = "no_results" /\ returned.ret = <<>>)
    /\ (Returned("list_courses_by_department") /\ Unrecognised(returned.arg)) =>
          (returned.out = "no_results" /\ returned.ret = <<>>)

\* C13: in every reachable state of every Course, credits_min and
\* credits_max are both set or both absent.
C13_CreditsBothOrNeither ==
    \A id \in DOMAIN heap : (heap[id].credits_min = <<>>) <=> (heap[id].credits_max = <<>>)

\* C14: in every reachable state of every Course that has both credits,
\* credits_min <= credits_max.
C14_CreditsOrdered ==
    \A id \in DOMAIN heap :
        (heap[id].credits_min # <<>> /\ heap[id].credits_max # <<>>) =>
            heap[id].credits_min[1] <= heap[id].credits_max[1]

\* this step is a detail extraction of course id that can have read the page
ExtractedFrom(id, page) ==
    /\ \E k \in CallIds : calls[k].pc = "detail_fetch" /\ calls[k].course = <<id>>
    /\ id \in DOMAIN heap
    /\ heap' = [heap EXCEPT ![id] = ParseCourseDetails(heap[id], page)]
    /\ ~returned'.failed
    /\ returned'.pc = "done"

\* C17: after a detail extraction, the first of a course or a later one,
\* from a page without a 'PREQ:' marker, the prerequisites of the course are
\* the empty string, which parse_prerequisites turns into the empty sequence.
C17_NoMarkerNoPrerequisites ==
    [][\A id \in DOMAIN heap : \A page \in ExtractPages \cup DetailPages :
          (page.preq = <<>> /\ ExtractedFrom(id, page)) =>
              /\ heap'[id].prerequisites = <<>>
              /\ parse_prerequisites(heap'[id].prerequisites) = <<>>]_vars

\* C15: the sequence that get_all_courses returns holds no two Course
\* entries of the same code.
C15_CodeUniqueInListing ==
    (Returned("get_all_courses") /\ ~returned.failed) =>
        \A i \in 1..Len(returned.ret) : \A j \in 1..Len(returned.ret) :
            i # j => heap[returned.ret[i]].code # heap[returned.ret[j]].code

\* the token has the shape [A-Z]+-?\d{4}: letters, an optional hyphen, four digits
CourseCodeShape(token) ==
    \E n \in 1..Len(token) :
        /\ \A i \in 1..n : token[i] \in UpperSet
        /\ LET rest == SubSeq(token, n + 1, Len(token))
               digits == IF rest # <<>> /\ rest[1] = "-" THEN Tail(rest) ELSE rest
           IN  Len(digits) = 4 /\ \A i \in 1..4 : digits[i] \in DigitSet

\* C16: every token in the result of parse_prerequisites has the shape
\* [A-Z]+-?\d{4}, without whitespace, and no OR-group of the result is empty.
C16_TokensAreCourseCodes ==
    parsed_prereqs # <<>> =>
        \A g \in 1..Len(parsed_prereqs[1]) :
            /\ parsed_prereqs[1][g] # <<>>
            /\ \A t \in 1..Len(parsed_prereqs[1][g]) : CourseCodeShape(parsed_prereqs[1][g][t])

\* "CS 0445 or" has been parsed into the one token CS-0445
C16_Witness ==
    /\ prereq_string = <<"C","S"," ","0","4","4","5","o","r">>
    /\ parsed_prereqs = <<<<<<CS0445>>>>>>

RECURSIVE SectionsOf(_, _, _)
\* the sections of the rows i.. , of the well-formed rows only or of all
SectionsOf(rows, i, well_formed_only) ==
    IF i > Len(rows) THEN <<>>
    ELSE (IF well_formed_only /\ ~rows[i].well_formed THEN <<>> ELSE rows[i].section)
            \o SectionsOf(rows, i + 1, well_formed_only)

RECURSIVE WithSectionNumber(_, _)
WithSectionNumber(rows, i) ==
    IF i > Len(rows) THEN <<>>
    ELSE (IF rows[i] = RowNoParen THEN <<>> ELSE <<rows[i]>>) \o WithSectionNumber(rows, i + 1)

C19_OnePassInDocumentOrder ==
    sections # <<>> =>
        \A rows \in RowSeqs(MaxRows) : \A tail \in SectionsTails :
            sections_text = SectionsPage(rows, tail) =>
                sections[1] = SectionsOf(rows, 1, \E i \in 1..Len(rows) : rows[i].well_formed)

\* a region with two well-formed rows of class number 18582 has been parsed
C19_Witness ==
    /\ sections_text = SectionsPage(<<RowLecture, RowDuplicate>>, <<>>)
    /\ sections # <<>>
    /\ Len(sections[1]) = 2
    /\ sections[1][1].class_number = sections[1][2].class_number
    /\ sections[1][1].section_type # sections[1][2].section_type

\* C20: no Section of the result comes from a line whose remainder could not
\* be classified: none has days, times, room, instructor and type all empty.
C20_UnclassifiedLineYieldsNothing ==
    sections # <<>> =>
        \A i \in 1..Len(sections[1]) :
            ~ /\ sections[1][i].days = <<>>
              /\ sections[1][i].times = <<>>
              /\ sections[1][i].room = <<>>
              /\ sections[1][i].instructor = <<>>
              /\ sections[1][i].section_type = <<>>

\* a recognizer raises on this page: int() refuses one of the credit runs
CutShort(page) ==
    page.credits # <<>> /\ (page.credits[1] = TooLong \/ page.credits[2] = TooLong)

\* the value of a text field after its recognizer has run on what it found
Recognised(found, previous) == IF found # <<>> THEN StrStrip(found[1]) ELSE previous

\* C21: when the detail extraction of a course fails part-way, because the
\* fetch fails or a recognizer raises, _parse_course_details raises nothing:
\* the call returns the course. The fields written before the failure hold
\* what the page gave, and every later field holds its previous value.
C21_FailureKeepsEarlierFields ==
    [][\A k \in CallIds :
          (calls[k].pc = "detail_fetch" /\ calls'[k].pc = "idle") =>
              LET id  == calls[k].course[1]
                  old == heap[id]
                  new == heap'[id]
              IN  /\ returned'.pc = "done"
                  /\ returned'.ret = <<id>>
                  /\ returned'.out \notin {"internal_error", "raised"}
                  /\ returned'.failed => new = old
                  /\ \A page \in ExtractPages \cup DetailPages :
                        (CutShort(page) /\ ExtractedFrom(id, page)) =>
                            /\ new.description = Recognised(page.p, old.description)
                            /\ new.prerequisites = Recognised(page.preq, old.prerequisites)
                            /\ new.corequisites = Recognised(page.creq, old.corequisites)
                            /\ new.credits_min = IF page.credits[1] # TooLong
                                                 THEN <<page.credits[1]>>
                                                 ELSE old.credits_min
                            /\ new.credits_max = old.credits_max
                            /\ new.career = old.career
                            /\ new.component = old.component
                            /\ new.grade_component = old.grade_component
                            /\ new.current_semester = old.current_semester
                            /\ new.sections = old.sections
                            /\ <<new.code, new.title, new.url>> = <<old.code, old.title, old.url>>]_vars

\* get_course_details has returned a course whose last extraction was cut
\* short at the maximum credits: the description and the minimum credits are
\* those of that page, the maximum credits and the career those of the
\* extraction before it
C21_Witness ==
    /\ Returned("get_course_details")
    /\ ~returned.failed
    /\ returned.out = "text"
    /\ returned.ret # <<>>
    /\ LET course == heap[returned.ret[1]]
       IN  /\ course.last_pass = "partial"
           /\ course.description = DescSorting
           /\ course.credits_min = <<4>>
           /\ course.credits_max = <<3>>
           /\ course.career = UGRD

\* C22: whatever the interleaving of the calls, at most one
\* get_course_details call for a given Course is between the start of its
\* detail fetch and the caching of its result.
C22_OneExtractionPerCourse ==
    \A j \in CallIds : \A k \in CallIds :
        (/\ j # k
         /\ calls[j].pc = "detail_fetch" /\ calls[j].tool = "get_course_details"
         /\ calls[k].pc = "detail_fetch" /\ calls[k].tool = "get_course_details") =>
            calls[j].course # calls[k].course

\* C23: once the calls made so far have ended, in sequence or interleaved,
\* every course of the current listing is the very Course that the detail
\* cache holds under its code, so both tiers show the same description.
C23_CachesAgree ==
    Quiet =>
        \A i \in 1..Len(courses_list_cache) :
            LET id == courses_list_cache[i]
            IN  /\ heap[id].code \in DOMAIN courses_cache
                /\ courses_cache[heap[id].code] = id
                /\ heap[courses_cache[heap[id].code]].description = heap[id].description

\* the source that wins a conflict's field has this value on record: the
\* official value for every field but the description, the wiki value for it
RuleValue(conflict) ==
    IF conflict.field_name = "description" THEN conflict.wiki_value
    ELSE conflict.official_value

\* the column value reads as the recorded text; no column value reads as None
HoldsValue(field_name, value, recorded) ==
    IF recorded = <<>> THEN value = <<>>
    ELSE value # <<>> /\ Str(field_name, value) = recorded[1]

\* C24 as claimed: after reconcile_data has run to completion, no
\* DataConflict that was unresolved at its start is unresolved, and for each
\* of them the course's field holds the value of the winning source: the
\* official value, or the wiki value for the description.
C24_ReconcileAppliesTheWinner ==
    [][last_run' = "reconcile_data" =>
          \A i \in 1..Len(data_conflicts) :
              ~data_conflicts[i].resolved =>
                  LET conflict == data_conflicts[i]
                  IN  /\ data_conflicts'[i].resolved
                      /\ conflict.course_id \in DOMAIN course_rows'
                      /\ HoldsValue(conflict.field_name,
                                    course_rows'[conflict.course_id][conflict.field_name],
                                    RuleValue(conflict))]_vars

\* the conflicts open at the start of a run that concern the same field of
\* the same course as conflict i and have the winning source's value on record
RecordedFor(i) ==
    {j \in 1..Len(data_conflicts) :
        /\ ~data_conflicts[j].resolved
        /\ data_conflicts[j].course_id = data_conflicts[i].course_id
        /\ data_conflicts[j].field_name = data_conflicts[i].field_name
        /\ RuleValue(data_conflicts[j]) # <<>>}

\* C24 as amended: after reconcile_data has run to completion, every
\* DataConflict that was unresolved at its start and whose course exists is
\* resolved, and one whose course is missing is as it was. When the winning
\* source's value is on record for the field (in the last such conflict, if
\* several concern it), the course's field holds that value; when it is not,
\* as for a description that had no wiki source, the field is left as it was.
C24_ReconcileAppliesRecordedWinner ==
    [][last_run' = "reconcile_data" =>
          /\ Len(data_conflicts') = Len(data_conflicts)
          /\ \A i \in 1..Len(data_conflicts) :
                LET conflict == data_conflicts[i]
                    id       == conflict.course_id
                    field    == conflict.field_name
                IN  IF conflict.resolved \/ id \notin DOMAIN course_rows
                    THEN data_conflicts'[i] = conflict
                    ELSE /\ data_conflicts'[i] = [conflict EXCEPT !.resolved = TRUE]
                         /\ id \in DOMAIN course_rows'
                         /\ IF RecordedFor(i) = {}
                            THEN course_rows'[id][field] = course_rows[id][field]
                            ELSE LET last == CHOOSE j \in RecordedFor(i) :
                                                \A l \in RecordedFor(i) : l <= j
                                 IN  HoldsValue(field, course_rows'[id][field],
                                                RuleValue(data_conflicts[last]))]_vars

\* reconcile_data has settled two description conflicts: one with the wiki's
\* text on record, which the course holds again, and one that records no wiki
\* value, whose course keeps the official text
C24_Witness ==
    /\ last_run = "reconcile_data"
    /\ \E i \in 1..Len(data_conflicts) : \E j \in 1..Len(data_conflicts) :
          /\ data_conflicts[i].resolved /\ data_conflicts[j].resolved
          /\ data_conflicts[i].field_name = "description"
          /\ data_conflicts[j].field_name = "description"
          /\ data_conflicts[i].wiki_value = <<DescAlgorithms>>
          /\ course_rows[data_conflicts[i].course_id].description = <<DescAlgorithms>>
          /\ data_conflicts[j].wiki_value = <<>>
          /\ data_conflicts[j].official_value = <<DescSorting>>
          /\ course_rows[data_conflicts[j].course_id].description = <<DescSorting>>

=============================================================================
